---- MODULE Spec2Model ----
(***************************************************************************)
(* Business-card OCR extraction pipeline (business_card_scanner.py).       *)
(*                                                                         *)
(* A text is a sequence of one-character strings; NL is the line break.    *)
(* Scores are kept as integers in units of 1/ScoreScale so that the        *)
(* thresholds of the source (0.2, 0.45, 0.9, ...) are compared exactly.    *)
(***************************************************************************)
EXTENDS Integers, Sequences, FiniteSets, TLC

(***************************************************************************)
(* Characters and the str methods the scanner relies on.                   *)
(***************************************************************************)
NL == "\n"

None == <<"None">>

Lower == {"a","b","c","d","e","f","g","h","i","j","k","l","m",
          "n","o","p","q","r","s","t","u","v","w","x","y","z"}

Upper == {"A","B","C","D","E","F","G","H","I","J","K","L","M",
          "N","O","P","Q","R","S","T","U","V","W","X","Y","Z"}

Digits == {"0","1","2","3","4","5","6","7","8","9"}

LowerOf == [c \in Upper |->
    CASE c = "A" -> "a" [] c = "B" -> "b" [] c = "C" -> "c" [] c = "D" -> "d"
      [] c = "E" -> "e" [] c = "F" -> "f" [] c = "G" -> "g" [] c = "H" -> "h"
      [] c = "I" -> "i" [] c = "J" -> "j" [] c = "K" -> "k" [] c = "L" -> "l"
      [] c = "M" -> "m" [] c = "N" -> "n" [] c = "O" -> "o" [] c = "P" -> "p"
      [] c = "Q" -> "q" [] c = "R" -> "r" [] c = "S" -> "s" [] c = "T" -> "t"
      [] c = "U" -> "u" [] c = "V" -> "v" [] c = "W" -> "w" [] c = "X" -> "x"
      [] c = "Y" -> "y" [] c = "Z" -> "z"]

UpperOf == [c \in Lower |-> CHOOSE u \in Upper : LowerOf[u] = c]

IsAlpha(c) == c \in Lower \cup Upper

IsDigit(c) == c \in Digits

IsSpace(c) == c \in {" ", NL}

IsPrintable(c) == c # NL

IsWordChar(c) == IsAlpha(c) \/ IsDigit(c) \/ c = "_"

ToLowerChar(c) == IF c \in Upper THEN LowerOf[c] ELSE c

ToUpperChar(c) == IF c \in Lower THEN UpperOf[c] ELSE c

ToLower(s) == [i \in 1..Len(s) |-> ToLowerChar(s[i])]

SeqToSet(s) == {s[i] : i \in 1..Len(s)}

Min(a, b) == IF a < b THEN a ELSE b

Max(a, b) == IF a > b THEN a ELSE b

\* smallest and largest element of a non-empty set of integers
MinOf(S) == CHOOSE i \in S : \A j \in S : i <= j

MaxOf(S) == CHOOSE i \in S : \A j \in S : i >= j

FilterSeq(s, Keep(_)) == SelectSeq(s, Keep)

\* number of positions of s whose character satisfies P
CountIf(s, P(_)) == Cardinality({i \in 1..Len(s) : P(s[i])})

\* str.strip()
Strip(s) ==
    LET idx == {i \in 1..Len(s) : ~IsSpace(s[i])}
    IN  IF idx = {} THEN <<>> ELSE SubSeq(s, MinOf(idx), MaxOf(idx))

\* str.split(sep) for a one-character separator: always at least one piece
RECURSIVE SplitOn(_, _)
SplitOn(s, sep) ==
    LET idx == {i \in 1..Len(s) : s[i] = sep}
    IN  IF idx = {} THEN <<s>>
        ELSE <<SubSeq(s, 1, MinOf(idx) - 1)>>
                \o SplitOn(SubSeq(s, MinOf(idx) + 1, Len(s)), sep)

\* str.split(): the maximal runs of non-whitespace characters
RECURSIVE SplitWords(_)
\* the words of a text t that has no white space at either end
SplitStripped(t) ==
    LET ws == {i \in 1..Len(t) : IsSpace(t[i])}
    IN  IF t = <<>> THEN <<>>
        ELSE IF ws = {} THEN <<t>>
        ELSE <<SubSeq(t, 1, MinOf(ws) - 1)>>
                \o SplitWords(SubSeq(t, MinOf(ws) + 1, Len(t)))

SplitWords(s) == SplitStripped(Strip(s))

\* sep.join(parts)
RECURSIVE JoinWith(_, _)
JoinWith(parts, sep) ==
    IF parts = <<>> THEN <<>>
    ELSE IF Len(parts) = 1 THEN parts[1]
    ELSE parts[1] \o <<sep>> \o JoinWith(Tail(parts), sep)

\* "needle in hay" for strings
Contains(hay, needle) ==
    \E i \in 1..(Len(hay) - Len(needle) + 1) :
        SubSeq(hay, i, i + Len(needle) - 1) = needle

(***************************************************************************)
(* self.email_pattern and re.search on it:                                 *)
(*   \b[A-Za-z0-9._%+-]+@[A-Za-z0-9.-]+\.[A-Z|a-z]{2,}\b                   *)
(***************************************************************************)
LocalChar(c) == IsAlpha(c) \/ IsDigit(c) \/ c \in {".", "_", "%", "+", "-"}

DomainChar(c) == IsAlpha(c) \/ IsDigit(c) \/ c \in {".", "-"}

TldChar(c) == IsAlpha(c) \/ c = "|"

WordAt(s, i) == i \in 1..Len(s) /\ IsWordChar(s[i])

\* \b between positions i-1 and i
Boundary(s, i) == WordAt(s, i - 1) # WordAt(s, i)

\* the pairs <<last domain position, end>> of the ways the pattern matches
\* when the match starts at st
\* ... when the local part starts at st and stops before position at
EmailAfter(s, st, at) ==
    IF at = st \/ s[at] # "@" THEN {}
    ELSE {de \in {d \in (at + 1)..(Len(s) - 1) : s[d + 1] = "."}
                   \X ((at + 4)..Len(s)) :
            /\ de[1] + 3 <= de[2]
            /\ \A i \in (at + 1)..de[1] : DomainChar(s[i])
            /\ \A i \in (de[1] + 2)..de[2] : TldChar(s[i])
            /\ Boundary(s, de[2] + 1)}

EmailFrom(s, st) ==
    LET stops == {i \in st..Len(s) : ~LocalChar(s[i])}
    IN  IF stops = {} THEN {} ELSE EmailAfter(s, st, MinOf(stops))

EmailStarts(s) ==
    {st \in 1..Len(s) : Boundary(s, st) /\ LocalChar(s[st]) /\ EmailFrom(s, st) # {}}

\* bool(re.search(self.email_pattern, s))
HasEmail(s) == \E i \in 1..Len(s) : s[i] = "@" /\ EmailStarts(s) # {}

\* re.search(self.email_pattern, s).group(): leftmost start, greedy parts
\* the end of the greedy match among the ways ms: the longest domain, then
\* the longest top-level part
GreedyEnd(ms) ==
    LET d == MaxOf({m[1] : m \in ms})
    IN  MaxOf({m[2] : m \in {y \in ms : y[1] = d}})

\* the end of the match that starts at st
EmailEnd(s, st) == GreedyEnd(EmailFrom(s, st))

EmailGroupAt(s, st) == SubSeq(s, st, EmailEnd(s, st))

EmailGroup(s) == EmailGroupAt(s, MinOf(EmailStarts(s)))

(***************************************************************************)
(* Candidate scorer and line heuristics.                                   *)
(***************************************************************************)
\* scores are integers in units of 1/ScoreScale
ScoreScale == 1000000

\* the float literal p/q of the source, in score units
Frac(p, q) == (p * ScoreScale) \div q

Vowels == {"a","e","i","o","u","A","E","I","O","U"}

CommonKeywords ==
    {<<"p","h","o","n","e">>, <<"e","m","a","i","l">>,
     <<"m","a","n","a","g","e","r">>, <<"c","a","r","e">>,
     <<"h","e","a","l","t","h">>, <<"m","e","d","i","c","a","l">>,
     <<"c","e","n","t","e","r">>, <<"h","o","s","p","i","c","e">>,
     <<"c","l","i","n","i","c">>, <<"a","d","d","r","e","s","s">>,
     <<"c","e","l","l">>, <<"m","o","b","i","l","e">>, <<"f","a","x">>,
     <<"o","f","f","i","c","e">>, <<"c","o","n","t","a","c","t">>,
     <<"c","o","l","o","r","a","d","o">>, <<"a","s","s","i","s","t">>,
     <<"s","u","i","t","e">>, <<"r","o","a","d">>,
     <<"s","t","r","e","e","t">>, <<"d","r","i","v","e">>}

BonusKeywords ==
    {<<"e","m","a","i","l">>, <<"p","h","o","n","e">>,
     <<"m","a","n","a","g","e","r">>, <<"c","e","n","t","e","r">>,
     <<"c","a","s","e">>, <<"n","u","r","s","i","n","g">>,
     <<"c","a","r","e">>}

BusinessWords ==
    {<<"i","n","c">>, <<"l","l","c">>, <<"c","o","r","p">>,
     <<"c","o","m","p","a","n","y">>, <<"h","o","s","p","i","t","a","l">>,
     <<"m","e","d","i","c","a","l">>, <<"h","e","a","l","t","h">>,
     <<"c","e","n","t","e","r">>, <<"c","l","i","n","i","c">>,
     <<"m","a","n","a","g","e","r">>, <<"d","i","r","e","c","t","o","r">>,
     <<"c","o","o","r","d","i","n","a","t","o","r">>}

\* re.findall(r"[A-Za-z]+", s): the maximal runs of letters
RECURSIVE AlphaRuns(_)
AlphaRuns(s) ==
    IF s = <<>> THEN <<>>
    ELSE IF ~IsAlpha(s[1]) THEN AlphaRuns(Tail(s))
    ELSE LET stops == {i \in 1..Len(s) : ~IsAlpha(s[i])}
             k == IF stops = {} THEN Len(s) + 1
                  ELSE CHOOSE i \in stops : \A j \in stops : i <= j
         IN  <<SubSeq(s, 1, k - 1)>> \o AlphaRuns(SubSeq(s, k, Len(s)))

RECURSIVE SumLen(_)
SumLen(ws) == IF ws = <<>> THEN 0 ELSE Len(ws[1]) + SumLen(Tail(ws))

\* _score_ocr_text (lines 962-1016), exact up to the last division: from
\* the alpha ratio on, the value times 20000 * length is kept as an integer

\* vowel_ratio < 0.35 scales by 0.35, vowel_factor otherwise 1.05
VowelFactor(nwords, vowel_words) ==
    IF nwords = 0 THEN 20
    ELSE IF 100 * vowel_words < 35 * nwords THEN 35 ELSE 105

\* avg_word_len < 2.2 scales by 0.4, > 9 by 0.7
LengthFactor(nwords, word_chars) ==
    IF nwords = 0 THEN 10
    ELSE IF 10 * word_chars < 22 * nwords THEN 4
    ELSE IF word_chars > 9 * nwords THEN 7 ELSE 10

\* the character mix, the word penalties and the keyword hits
ScoreBase(length, letters, digits, spaces, nwords, vowel_words, keyword_hits, word_chars) ==
    (10 * letters + 6 * digits + 3 * (length - letters - digits - spaces))
            * VowelFactor(nwords, vowel_words) * LengthFactor(nwords, word_chars)
        + (IF nwords > 0 THEN Min(keyword_hits, 4) * 800 * length ELSE 0)

\* the bonuses for "@" and for a bonus keyword
ScoreBonus(stripped, n) ==
    n + (IF "@" \in SeqToSet(stripped) THEN 4000 * Len(stripped) ELSE 0)
      + (IF \E k \in BonusKeywords : Contains(ToLower(stripped), k)
         THEN 2000 * Len(stripped) ELSE 0)

\* the penalty for few distinct characters, the bonus for four words, the cap
ScoreCap(stripped, n) ==
    Min((IF 5 * Cardinality(SeqToSet(stripped)) <= Len(stripped) THEN n ELSE 2 * n)
            + (IF Len(SplitWords(stripped)) >= 4 THEN 2000 * Len(stripped) ELSE 0),
        44000 * Len(stripped))

\* the score of the printable characters, given their words of two letters
\* or more
ScoreWords(stripped, words) ==
    (ScoreCap(stripped,
              ScoreBonus(stripped,
                         ScoreBase(Len(stripped),
                                   CountIf(stripped, IsAlpha),
                                   CountIf(stripped, IsDigit),
                                   CountIf(stripped, IsSpace),
                                   Len(words),
                                   CountIf(words, LAMBDA w : \E i \in 1..Len(w) : w[i] \in Vowels),
                                   CountIf(words, LAMBDA w : ToLower(w) \in CommonKeywords),
                                   SumLen(words))))
        * (ScoreScale \div 20000)) \div Len(stripped)

ScorePrintable(stripped) ==
    IF stripped = <<>> THEN 0
    ELSE ScoreWords(stripped, SelectSeq(AlphaRuns(stripped), LAMBDA w : Len(w) > 1))

ScoreOcrText(text) == ScorePrintable(SelectSeq(text, IsPrintable))

\* _line_is_valid
LineIsValid(line) ==
    LET letters == CountIf(line, IsAlpha)
        vowels == CountIf(line, LAMBDA c : c \in Vowels)
    IN  /\ Len(line) >= 3
        /\ letters >= 2
        /\ 10 * letters >= 4 * Len(line)
        /\ 4 * vowels >= Len(line)
        /\ ScoreOcrText(line) >= Frac(2, 10)

\* str.isupper(): some cased character, and no lower-case one
IsUpperStr(s) == (\E i \in 1..Len(s) : s[i] \in Upper) /\ (\A i \in 1..Len(s) : s[i] \notin Lower)

\* _looks_like_name
Capitalised(words) == Len(words) >= 2 /\ \A i \in 1..Len(words) : words[i][1] \in Upper

LooksLikeName(text) ==
    /\ ~HasEmail(text)
    /\ \A i \in 1..Len(text) : ~IsDigit(text[i])
    /\ Len(text) <= 30
    /\ ~IsUpperStr(text)
    /\ \A b \in BusinessWords : ~Contains(ToLower(text), b)
    /\ Capitalised(SplitWords(text))

\* end of a match of \(?\d{3}\)?[-.\s]?\d{3}[-.\s]?\d{4} starting at i, or 0
PhoneSep(c) == c \in {"-", ".", " ", NL}

DigitsAt(s, i, n) == i >= 1 /\ i + n - 1 <= Len(s) /\ \A j \in i..(i + n - 1) : IsDigit(s[j])

\* the position after p when the character at p is optional and there
SkipIf(s, p, Optional(_)) == IF p <= Len(s) /\ Optional(s[p]) THEN p + 1 ELSE p

PhoneTail(s, p1, p4, p6) ==
    IF DigitsAt(s, p1, 3) /\ DigitsAt(s, p4, 3) /\ DigitsAt(s, p6, 4)
    THEN p6 + 3 ELSE 0

PhoneMiddle(s, p1, p4) == PhoneTail(s, p1, p4, SkipIf(s, p4 + 3, PhoneSep))

PhoneArea(s, p1) ==
    PhoneMiddle(s, p1, SkipIf(s, SkipIf(s, p1 + 3, LAMBDA c : c = ")"), PhoneSep))

PhoneEndAt(s, i) == PhoneArea(s, SkipIf(s, i, LAMBDA c : c = "("))

\* _extract_phone: every text the later patterns match also matches the
\* first pattern, so the first pattern's leftmost match is what is returned
ExtractPhoneAt(text, st) == Strip(SubSeq(text, st, PhoneEndAt(text, st)))

ExtractPhone(text) ==
    LET starts == {i \in 1..Len(text) : PhoneEndAt(text, i) # 0}
    IN  IF starts = {} THEN None ELSE ExtractPhoneAt(text, MinOf(starts))

(***************************************************************************)
(* Text clean-up, filtering and merging.                                   *)
(***************************************************************************)
\* [line.strip() for line in lines if line.strip()]
StripEach(lines) ==
    SelectSeq([i \in 1..Len(lines) |-> Strip(lines[i])], LAMBDA l : l # <<>>)

\* [line.strip() for line in text.split('\n') if line.strip()]
StrippedLines(text) == StripEach(SplitOn(text, NL))

\* '\n'.join(' '.join(line.split()) for line in lines)
CleanLines(lines) ==
    JoinWith([i \in 1..Len(lines) |-> JoinWith(SplitWords(lines[i]), " ")], NL)

\* _clean_ocr_text
CleanOcrText(text) == IF text = <<>> THEN <<>> ELSE CleanLines(StrippedLines(text))

\* the lines _post_process_text keeps
WorthKeeping(line) ==
    \/ LineIsValid(line)
    \/ HasEmail(line)
    \/ LooksLikeName(line)
    \/ ExtractPhone(line) # None

FilteredOrAll(filtered_lines, fallback_lines) ==
    IF filtered_lines # <<>> THEN JoinWith(filtered_lines, NL)
    ELSE JoinWith(fallback_lines, NL)

PostProcessLines(fallback_lines) ==
    FilteredOrAll(SelectSeq(fallback_lines, WorthKeeping), fallback_lines)

\* _post_process_text
PostProcessText(text) == IF text = <<>> THEN <<>> ELSE PostProcessLines(StrippedLines(text))

\* a turn of the loop of _merge_text that takes any line that is not blank
MergeLineUnseen(base_lines, line) ==
    IF line = <<>> THEN base_lines ELSE Append(base_lines, line)

\* one turn of the loop of _merge_text: line is a stripped line of new_text
MergeLine(base_lines, line) ==
    IF line = <<>> \/ line \in SeqToSet(base_lines) \/ ~LineIsValid(line)
    THEN base_lines ELSE Append(base_lines, line)

\* the loop of _merge_text over the lines of new_text
RECURSIVE MergeLines(_, _)
MergeLines(base_lines, new_lines) ==
    IF new_lines = <<>> THEN base_lines
    ELSE MergeLines(MergeLine(base_lines, Strip(new_lines[1])), Tail(new_lines))

\* _merge_text
MergeText(base_text, new_text) ==
    IF new_text = <<>> THEN base_text
    ELSE JoinWith(MergeLines(StrippedLines(base_text), SplitOn(new_text, NL)), NL)

\* _text_is_gibberish
TextIsGibberish(text) ==
    LET letters == SelectSeq(text, IsAlpha)
        vowels == CountIf(letters, LAMBDA c : c \in Vowels)
    IN  IF text = <<>> THEN TRUE
        ELSE IF ScoreOcrText(text) >= Frac(35, 100) THEN FALSE
        ELSE IF letters = <<>> THEN TRUE
        ELSE 5 * vowels < Len(letters) /\ "@" \notin SeqToSet(text)

\* p or q on strings
OrElse(p, q) == IF p # <<>> THEN p ELSE q

\* self._post_process_text(t) or t
PostProcessOr(t) == OrElse(PostProcessText(t), t)

(***************************************************************************)
(* What the OCR engines can answer: a few texts of each kind the           *)
(* orchestrator distinguishes.                                             *)
(***************************************************************************)
\* an e-mail address, score 1.33
TxtEmailHigh ==
    <<"J","a","n","e"," ","D","o","e",NL,"j","a","n","e","@","a","c","m",
      "e",".","c","o","m">>

\* an e-mail address, score 0.722
TxtEmailMid ==
    <<"a","@","b",".","c","o">>

\* an e-mail address, score 0.4875
TxtEmailLow ==
    <<"1","2","@","3","4",".","z","z">>

\* no e-mail address, score 0.91875
TxtName ==
    <<"J","a","n","e"," ","D","o","e">>

\* no e-mail address, score 0.42
TxtAb ==
    <<"a","b">>

\* no e-mail address, score 0.112
TxtJunk ==
    <<"x","q"," ","z","t">>

\* an e-mail address with few vowels, score 0.701; the line fails
\* _line_is_valid
TxtEmailDim ==
    <<"j","d","@","b","c","d",".","o","r","g">>

\* consonants only, score 0.252; gibberish for _text_is_gibberish
TxtCons ==
    <<"b","r","d"," ","t","k","l"," ","1","2">>

\* spaced letters, score 0.214; the line passes _line_is_valid
TxtVowels ==
    <<"a"," ","e"," ","i"," ","o">>

\* a whole card, 134 characters, score 1.88
TxtLong ==
    <<"J","a","n","e"," ","D","o","e",NL,"A","c","m","e"," ","H","e","a",
      "l","t","h"," ","C","a","r","e"," ","C","e","n","t","e","r",NL,"P",
      "a","t","i","e","n","t"," ","C","a","r","e"," ","M","a","n","a","g",
      "e","r",NL,"j","a","n","e",".","d","o","e","@","a","c","m","e","h",
      "e","a","l","t","h",".","c","o","m",NL,"(","5","5","5",")"," ","1",
      "2","3","-","4","5","6","7",NL,"1","0","0"," ","M","a","i","n"," ",
      "S","t","r","e","e","t"," ","S","u","i","t","e"," ","2","0","0",NL,
      "D","e","n","v","e","r"," ","C","o","l","o","r","a","d","o">>

(***************************************************************************)
(* OCR engine adapters: what the scanner makes of an engine's answer.      *)
(***************************************************************************)
\* the outcome of a call into a library: it raised, or it returned a value
Raised == [raised |-> TRUE, value |-> <<>>]

Returned(v) == [raised |-> FALSE, value |-> v]

Outcomes(values) == {Returned(v) : v \in values} \cup {Raised}

\* len(re.findall(self.email_pattern, s)), counting from position from
RECURSIVE EmailCountFrom(_, _)
EmailCountAmong(s, starts) ==
    IF starts = {} THEN 0 ELSE 1 + EmailCountFrom(s, EmailEnd(s, MinOf(starts)) + 1)

EmailCountFrom(s, from) ==
    IF "@" \notin SeqToSet(s) THEN 0
    ELSE EmailCountAmong(s, {st \in EmailStarts(s) : st >= from})

\* phone_pattern of _simple_rotational_ocr:
\*   \b\d{3}[\s\-.]?\d{3}[\s\-.]?\d{4}\b
SimplePhoneTail(s, i, p3, p5) ==
    IF /\ Boundary(s, i)
       /\ DigitsAt(s, i, 3) /\ DigitsAt(s, p3, 3) /\ DigitsAt(s, p5, 4)
       /\ Boundary(s, p5 + 4)
    THEN p5 + 3 ELSE 0

SimplePhoneMiddle(s, i, p3) == SimplePhoneTail(s, i, p3, SkipIf(s, p3 + 3, PhoneSep))

SimplePhoneEndAt(s, i) == SimplePhoneMiddle(s, i, SkipIf(s, i + 3, PhoneSep))

RECURSIVE SimplePhoneCountFrom(_, _)
SimplePhoneCountFrom(s, from) ==
    LET starts == {i \in from..Len(s) : SimplePhoneEndAt(s, i) # 0}
    IN  IF starts = {} THEN 0
        ELSE 1 + SimplePhoneCountFrom(s, SimplePhoneEndAt(s, MinOf(starts)) + 1)

\* the score _simple_rotational_ocr ranks its five variants by
SimpleVariantScore(text) ==
    EmailCountFrom(text, 1) * 10 + SimplePhoneCountFrom(text, 1) * 5
        + Len(SplitWords(text))

\* One word of pytesseract.image_to_data: its text, its confidence and the
\* (block, paragraph, line) it was found on.
WordKey(w) == <<w.block_num, w.par_num, w.line_num>>

KeyLess(a, b) ==
    \/ a[1] < b[1]
    \/ a[1] = b[1] /\ a[2] < b[2]
    \/ a[1] = b[1] /\ a[2] = b[2] /\ a[3] < b[3]

RECURSIVE SortKeys(_)
SortKeys(keys) ==
    IF keys = {} THEN <<>>
    ELSE LET k == CHOOSE x \in keys : \A y \in keys : x = y \/ KeyLess(x, y)
         IN  <<k>> \o SortKeys(keys \ {k})

RECURSIVE SumSeq(_)
SumSeq(s) == IF s = <<>> THEN 0 ELSE s[1] + SumSeq(Tail(s))

\* _extract_text_from_data (lines 1092-1158) on the words image_to_data
\* returned: the text of the kept lines and their average confidence / 100,
\* in score units

\* the words of every line, in the order of the sorted line keys
GroupByLine(kept, keys) ==
    [i \in 1..Len(keys) |-> SelectSeq(kept, LAMBDA w : WordKey(w) = keys[i])]

GroupLines(kept) == GroupByLine(kept, SortKeys({WordKey(kept[i]) : i \in 1..Len(kept)}))

\* the cleaned text of a line, given its words
LineText(ws) == CleanOcrText(JoinWith([i \in 1..Len(ws) |-> Strip(ws[i].text)], " "))

ConfSum(ws) == SumSeq([i \in 1..Len(ws) |-> ws[i].conf])

LineKept(ws, line_text) ==
    /\ line_text # <<>>
    /\ (LineIsValid(line_text) \/ ConfSum(ws) >= 70 * Len(ws))

LineOk(ws) == LineKept(ws, LineText(ws))

\* lines holds the words of every line that is kept
DataResult(lines) ==
    IF lines = <<>>
    THEN [text |-> <<>>, conf |-> 0]
    ELSE [text |-> JoinWith([i \in 1..Len(lines) |-> LineText(lines[i])], NL),
          conf |-> SumSeq([i \in 1..Len(lines) |->
                              (ConfSum(lines[i]) * (ScoreScale \div 100)) \div Len(lines[i])])
                      \div Len(lines)]

ExtractTextFromData(ocr_data) ==
    DataResult(SelectSeq(GroupLines(SelectSeq(ocr_data,
                                              LAMBDA w : Strip(w.text) # <<>> /\ w.conf >= 55)),
                         LineOk))

\* the part of _rapidocr_fallback after the reader has answered: entries
\* are (text, confidence in percent), a missing text is None
JoinCleaned(usable) ==
    JoinWith([i \in 1..Len(usable) |-> CleanOcrText(usable[i].text)], NL)

RapidLines(result) ==
    PostProcessText(
        JoinCleaned(SelectSeq(result,
                              LAMBDA e : e.text # None /\ e.score >= 45
                                         /\ CleanOcrText(e.text) # <<>>)))

\* the part of _easyocr_fallback after readtext has answered
EasyLines(result) ==
    CleanOcrText(JoinWith(result, NL))

(***************************************************************************)
(* Image variants.  An image is known by its content (what tobytes()       *)
(* hashes); equal contents are equal numbers.                              *)
(***************************************************************************)
\* the normalized image itself
OrigId == 0

GrayId == 1

AutoContrastId == 2

EqualizeId == 3

PreprocessId == 4

PilBinarizeId == 5

OpencvBinarizeId == 6

ClaheId == 7

AggressiveId == 8

\* ImageOps.invert(img.convert('L')).convert('RGB'): distinct images have
\* distinct inverted copies, none of which is one of the contents above
InvertOffset == 10

Invert(img) == img + InvertOffset

Failed == -1

\* the content of an image whose tobytes() raises: _dedupe_images takes the
\* object's id for its fingerprint (lines 504-506)
Unhashable == 9

\* a list that is handed on as it is
KeepAllImages(images) == images

\* _dedupe_images: the first occurrence of every fingerprint, in order; the
\* fingerprint is the md5 of the content, or the id of an object whose
\* content cannot be read, which no other object shares
RECURSIVE DedupeImages(_)
DedupeImages(images) ==
    IF images = <<>> THEN <<>>
    ELSE LET rest == DedupeImages(SubSeq(images, 1, Len(images) - 1))
             img == images[Len(images)]
         IN  IF img # Unhashable /\ img \in SeqToSet(rest) THEN rest
             ELSE Append(rest, img)

Ok(o) == IF o = Failed THEN <<>> ELSE <<o>>

\* _generate_processed_images.  o says how each step went: the content it
\* produced, or Failed.  The first three steps share one try block, so a
\* failure there also skips the steps after it in that block.
ProducedVariants(o, include_aggressive) ==
    LET block == IF o.grayscale = Failed THEN <<>>
                 ELSE IF o.autocontrast = Failed THEN <<o.grayscale>>
                 ELSE IF o.equalize = Failed THEN <<o.grayscale, o.autocontrast>>
                 ELSE <<o.grayscale, o.autocontrast, o.equalize>>
    IN  block \o Ok(o.preprocess) \o Ok(o.pil_binarize)
              \o Ok(o.opencv_binarize) \o Ok(o.clahe)
              \o (IF include_aggressive THEN Ok(o.aggressive) ELSE <<>>)

\* lines 425-426: at most max_variants of them, if max_variants is not 0
FirstVariants(deduped, max_variants) ==
    IF max_variants # 0 /\ Len(deduped) > max_variants
    THEN SubSeq(deduped, 1, max_variants) ELSE deduped

GenerateProcessedImages(o, include_aggressive, max_variants) ==
    FirstVariants(DedupeImages(ProducedVariants(o, include_aggressive)), max_variants)

\* how the steps can go: each fails or yields its own content; autocontrast
\* and equalize can leave a grayscale image as it is; _preprocess_image and
\* _aggressive_preprocess hand back their input when their own steps fail;
\* the binarized images may be ones whose bytes cannot be read
VariantOutcomes(opencv, np_ok) ==
    [grayscale : {Failed, GrayId},
     autocontrast : {Failed, AutoContrastId, GrayId},
     equalize : {Failed, EqualizeId, GrayId},
     preprocess : {Failed, PreprocessId, OrigId},
     pil_binarize : {Failed, PilBinarizeId, Unhashable},
     opencv_binarize : IF opencv THEN {Failed, OpencvBinarizeId, Unhashable}
                       ELSE {Failed},
     clahe : IF opencv /\ np_ok THEN {Failed, ClaheId} ELSE {Failed},
     aggressive : {Failed, AggressiveId, OrigId}]

\* lines 767-782 without the truncation of lines 783-785: a faulty variant
\* of BuildImagesToTry, which the bound on the primary loop must reject
BuildImagesUntruncated(processed_images, original_image, inverted) ==
    LET base == Append(processed_images, original_image)
        first == SubSeq(base, 1, Min(2, Len(base)))
        inv == SelectSeq([i \in 1..Len(first) |->
                             IF inverted[i] THEN Invert(first[i]) ELSE Failed],
                         LAMBDA v : v # Failed)
    IN  DedupeImages(base \o inv)

\* the list of images the primary loop goes through (lines 767-785);
\* inverted says, for the first two images, whether inverting it worked
MaxVariantsToTry == 5

\* inverted_variants (lines 771-779)
InvertedVariants(processed_images, original_image, inverted) ==
    LET base == Append(processed_images, original_image)
        first == SubSeq(base, 1, Min(2, Len(base)))
    IN  SelectSeq([i \in 1..Len(first) |->
                      IF inverted[i] THEN Invert(first[i]) ELSE Failed],
                  LAMBDA v : v # Failed)

BuildImagesToTry(processed_images, original_image, inverted) ==
    LET base == Append(processed_images, original_image)
        first == SubSeq(base, 1, Min(2, Len(base)))
        inv == SelectSeq([i \in 1..Len(first) |->
                             IF inverted[i] THEN Invert(first[i]) ELSE Failed],
                         LAMBDA v : v # Failed)
        all == DedupeImages(base \o inv)
    IN  IF Len(all) > MaxVariantsToTry THEN SubSeq(all, 1, MaxVariantsToTry) ELSE all

(***************************************************************************)
(* Lazily built engine readers (_get_easyocr_reader, _get_rapidocr_reader).*)
(***************************************************************************)
\* what a getter call returns and leaves in the scanner's field when it
\* runs without interference: cur is the field, built says whether the
\* constructor, if it is reached, succeeds
GetReader(available, prerequisite, cur, built) ==
    IF ~available THEN [ret |-> None, field |-> cur, constructed |-> FALSE]
    ELSE IF cur # None THEN [ret |-> cur, field |-> cur, constructed |-> FALSE]
    ELSE IF ~prerequisite THEN [ret |-> None, field |-> cur, constructed |-> FALSE]
    ELSE IF built THEN [ret |-> <<"reader">>, field |-> <<"reader">>, constructed |-> TRUE]
    ELSE [ret |-> None, field |-> None, constructed |-> TRUE]

(***************************************************************************)
(* The request bytes and the decoded image.                                *)
(***************************************************************************)
HeicMagic == <<"00","00","00","4","f","t","y","p","h","e","i","c">>

FtypMagic == <<"00","00","00"," ","f","t","y","p">>

JpegMagic == <<"ff","d8","ff","e0">>

\* the last byte of an upload says which card the picture shows: an empty
\* one, one with a short e-mail line, a fully printed one, a badly lit one
BlankCard == "c1"

EmailCard == "c2"

LongCard == "c3"

NoisyCard == "c4"

\* a dim one, whose e-mail line is read on some attempts only
DimCard == "c5"

\* a faint one, of which the engines make little
FaintCard == "c6"

Card(bytes) == bytes[Len(bytes)]

\* image_content[:n]
Prefix(bytes, n) == SubSeq(bytes, 1, Min(n, Len(bytes)))

\* is_heic of scan_image (line 67)
IsHeic(bytes) ==
    \/ Prefix(bytes, 12) = HeicMagic
    \/ Prefix(bytes, 12) = FtypMagic

\* the uploads followed through a scan: JPEG files, HEIC files with either
\* header, the bare 8-byte header, and bytes that are no image
ImageContents ==
    {JpegMagic \o <<BlankCard>>,
     JpegMagic \o <<EmailCard>>,
     HeicMagic \o <<BlankCard>>,
     FtypMagic \o <<"h","e","i","c">> \o <<LongCard>>,
     FtypMagic,
     <<"d1", "d2">>}

\* whether PIL's own decoders can open the bytes, and whether the HEIF
\* fall-backs (pillow_heif, pyheif) can; for HEIC that depends on what is
\* installed
PilCanOpen(bytes) == Prefix(bytes, 4) = JpegMagic

HeifCanOpen(bytes) ==
    IF Len(bytes) > 12 /\ SubSeq(bytes, 5, 12) = <<"f","t","y","p","h","e","i","c">>
    THEN BOOLEAN ELSE {FALSE}

\* sizes of decoded images: within range, and too small
ImageSizes == {<<1200, 1200>>, <<600, 600>>}

MinDimension == 1200

MaxDimension == 2000

\* _ensure_minimum_size: the size asked of image.resize, or the size
\* itself when no resize is needed
TargetSize(size) ==
    LET smallest == Min(size[1], size[2])
        largest == Max(size[1], size[2])
    IN  IF smallest < MinDimension
        THEN <<(size[1] * MinDimension) \div smallest, (size[2] * MinDimension) \div smallest>>
        ELSE IF largest > MaxDimension
        THEN <<(size[1] * MaxDimension) \div largest, (size[2] * MaxDimension) \div largest>>
        ELSE size

(***************************************************************************)
(* Bounds of the model.                                                    *)
(***************************************************************************)
\* the clock stops advancing at MaxClock (seconds since the call of
\* _extract_text_with_ocr began)
MaxClock == 1

\* longest time one engine call is given
MaxCallTicks == 1

\* OCR_TIME_BUDGET_SECONDS when it is not set or not a number
DefaultBudget == 24

\* values of OCR_TIME_BUDGET_SECONDS: 0, 1, or unset (the default applies)
BudgetSettings == {0, 1, -1}

\* float(os.environ.get("OCR_TIME_BUDGET_SECONDS", "24")) with its fallback
MaxTimeBudget(setting) == IF setting < 0 THEN DefaultBudget ELSE setting

\* shortest text scan_image is content with
MinTextLength == 120

(***************************************************************************)
(* State.                                                                  *)
(***************************************************************************)
VARIABLES
    env,               \* what is installed and configured in the process
    easyocr_reader,    \* self._easyocr_reader
    rapidocr_reader,   \* self._rapidocr_reader
    pc,                \* where scan_image is
    image_content,     \* the bytes being scanned
    image,             \* size of the decoded image, <<>> before decoding
    simple,            \* locals of _simple_rotational_ocr
    text,              \* text of scan_image
    pass,              \* "none", "normal" or "aggressive" heavy pass
    processed_images,  \* the variants handed to _extract_text_with_ocr
    x,                 \* locals of _extract_text_with_ocr
    now,               \* time.perf_counter() - start_time
    result,            \* what scan_image returned, <<>> while it runs
    hist,              \* what has happened in the scan (history only)
    threads,           \* concurrent callers of the reader getters
    reader_log,        \* what has happened to the readers (history only)
    call               \* a helper called on its own: its arguments and its result

vars == <<env, easyocr_reader, rapidocr_reader, pc, image_content, image, simple,
          text, pass, processed_images, x, now, result, hist, threads, reader_log, call>>

scanvars == <<pc, image_content, image, simple, text, pass, processed_images, x,
              now, result, hist, call>>

\* no helper is being called on its own
NoCall == [op |-> "none"]

NoEntry == <<>>

\* the threads that may call a reader getter at the same time
Threads == {1, 2}

\* a caller of a getter: where it is, the engine asked for, what the
\* constructor gave it, what the call returned, and (history) whether the
\* call began after the engine's construction had failed
IdleThread ==
    [pc |-> "idle", engine |-> "", ret |-> None, made |-> None, calls |-> 0,
     after_failure |-> FALSE]

Engines == {"easyocr", "rapidocr"}

\* history of the readers: engines whose construction has raised and been
\* handled, engines whose constructor was run again by a call that began
\* after that, engines whose stored reader was set back to None, and engines
\* whose getter returned None after building a reader
NoReaderLog == [failed |-> {}, retried |-> {}, dropped |-> {}, lost |-> {}]

\* locals of _extract_text_with_ocr before the call
IdleX ==
    [max_time_budget |-> 0, ocr_results |-> <<>>, seen_texts |-> {},
     best_entry |-> NoEntry, rapid_primary_text |-> None, rapid_primary_score |-> 0,
     images_to_try |-> <<>>, image_index |-> 0, config_index |-> 0,
     stop_requested |-> FALSE, best_text |-> <<>>, best_score |-> 0, ret |-> <<>>]

IdleSimple == [index |-> 0, best_text |-> <<>>, best_score |-> -1]

\* history of one scan: engine calls per stage in the current heavy pass,
\* stages whose engine call started after the budget had run out, the rank
\* of the last stage that called an engine (in the scan, and in the current
\* heavy pass), what the fast path decided, the seconds the scan's heavy
\* passes had taken when they returned, and the text that the first
\* RapidOCR pass or the last fall-back after the merge handed back in the
\* current call
Stages ==
    {"rapid_first", "primary_string", "primary_data", "secondary",
     "fallback_easy", "fallback_rapid", "fallback_tesseract", "post_easy", "post_rapid"}

\* the orchestrator's stages in the order of the loops and fall-backs of
\* _extract_text_with_ocr; the fast path of scan_image comes first, and the
\* RapidOCR pass that precedes the loops belongs to none of them
FastPathRank == 1

StageRank(stage) ==
    CASE stage \in {"primary_string", "primary_data"} -> 2
      [] stage = "secondary" -> 3
      [] stage \in {"fallback_easy", "fallback_rapid", "fallback_tesseract",
                    "post_easy", "post_rapid"} -> 4
      [] OTHER -> 0

NoHist ==
    [calls |-> [st \in Stages |-> 0], late |-> {}, stage |-> 0, pass_stage |-> 0,
     decoded |-> 0,
     fast_accepted |-> FALSE, fast_text |-> <<>>, heavy_runs |-> 0,
     no_text |-> TRUE, spent |-> 0, heard |-> <<>>]

Environments ==
    {e \in [easy : BOOLEAN, rapid : BOOLEAN, opencv : BOOLEAN, np : BOOLEAN,
            budget : BudgetSettings] :
        ~e.np => ~e.easy /\ ~e.rapid /\ ~e.opencv}

\* the installations a scan is followed in: everything installed with a
\* budget of one second or of none, and nothing installed with the default
\* budget
ScanEnvironments ==
    {e \in Environments :
        \/ e.easy /\ e.rapid /\ e.opencv /\ e.np /\ e.budget >= 0
        \/ ~e.easy /\ ~e.rapid /\ ~e.opencv /\ ~e.np /\ e.budget < 0}

Init ==
    /\ env \in ScanEnvironments
    /\ easyocr_reader = None
    /\ rapidocr_reader = None
    /\ pc = "idle"
    /\ image_content = <<>>
    /\ image = <<>>
    /\ simple = IdleSimple
    /\ text = <<>>
    /\ pass = "none"
    /\ processed_images = <<>>
    /\ x = IdleX
    /\ now = 0
    /\ result = <<>>
    /\ hist = NoHist
    /\ threads = [t \in Threads |-> IdleThread]
    /\ reader_log = NoReaderLog
    /\ call = NoCall

(***************************************************************************)
(* scan_image up to the heavy pipeline.                                    *)
(***************************************************************************)
HeicMessage ==
    "Unable to process HEIC file. Please convert the image to JPEG or PNG format and try again."

ResizeMessage == "image.resize raised"

\* the dictionary the except clause of scan_image returns
Failure(message) ==
    [success |-> FALSE, error |-> <<"Failed to process image: ", message>>,
     contact |-> <<>>, raw_text |-> <<>>]

\* what a Tesseract call of the fast path can read off a card
SimpleTexts(card) ==
    CASE card = EmailCard -> {<<>>, TxtAb, TxtEmailLow}
      [] card = LongCard -> {<<>>, TxtLong}
      [] card = NoisyCard -> {<<>>, TxtAb}
      [] OTHER -> {<<>>}

SimpleOutcomes == Outcomes(SimpleTexts(Card(image_content)))

NumSimpleVariants == 5

\* an engine call takes d seconds
Ticks == 0..MaxCallTicks

Tick(d) == now' = Min(now + d, MaxClock)

\* scan_image, lines 59-70: a new scan; HEIC bytes are refused at once
ScanImage ==
    /\ pc \in {"idle", "done"}
    /\ \E content \in ImageContents :
        /\ image_content' = content
        /\ IF IsHeic(content)
           THEN /\ result' = <<Failure(HeicMessage)>>
                /\ pc' = "done"
           ELSE /\ result' = <<>>
                /\ pc' = "open"
    /\ image' = <<>>
    /\ simple' = IdleSimple
    /\ text' = <<>>
    /\ pass' = "none"
    /\ processed_images' = <<>>
    /\ x' = IdleX
    /\ now' = 0
    /\ hist' = NoHist
    /\ UNCHANGED <<env, easyocr_reader, rapidocr_reader, threads, reader_log, call>>

\* lines 72-139: Image.open, the HEIF fall-backs, conversion to RGB
OpenImage ==
    /\ pc = "open"
    /\ hist' = [hist EXCEPT !.decoded = @ + 1]
    /\ \E heif \in HeifCanOpen(image_content), size \in ImageSizes :
        IF PilCanOpen(image_content) \/ heif
        THEN /\ image' = size
             /\ pc' = "crop"
             /\ result' = result
        ELSE /\ image' = image
             /\ pc' = "done"
             /\ result' = <<Failure(HeicMessage)>>
    /\ UNCHANGED <<env, easyocr_reader, rapidocr_reader, image_content, simple, text,
                   pass, processed_images, x, now, threads, reader_log, call>>

\* _crop_to_card_bounds: without OpenCV, without a contour, or when a step
\* raises, the image is kept; otherwise it is the deskewed crop
CropToCardBounds ==
    /\ pc = "crop"
    /\ \/ image' = image
       \/ /\ env.opencv
          /\ \E size \in ImageSizes : image' = size
    /\ pc' = "orient"
    /\ UNCHANGED <<env, easyocr_reader, rapidocr_reader, image_content, simple, text,
                   pass, processed_images, x, now, result, hist, threads, reader_log, call>>

\* what pytesseract.image_to_osd can do: raise, report no rotation, or
\* report an angle
OsdOutcomes == {"raised", "no match", "0", "90", "180", "270"}

\* _correct_orientation: 90 and 270 swap the sides
CorrectOrientation ==
    /\ pc = "orient"
    /\ \E osd \in OsdOutcomes :
        image' = IF osd \in {"90", "270"} THEN <<image[2], image[1]>> ELSE image
    /\ pc' = "resize"
    /\ UNCHANGED <<env, easyocr_reader, rapidocr_reader, image_content, simple, text,
                   pass, processed_images, x, now, result, hist, threads, reader_log, call>>

\* _ensure_minimum_size: image.resize is called when the size is out of
\* range; nothing catches what it raises before scan_image's own handler
EnsureMinimumSize ==
    /\ pc = "resize"
    /\ \/ /\ image' = TargetSize(image)
          /\ pc' = "simple_prepare"
          /\ result' = result
       \/ /\ TargetSize(image) # image
          /\ image' = image
          /\ pc' = "done"
          /\ result' = <<Failure(ResizeMessage)>>
    /\ UNCHANGED <<env, easyocr_reader, rapidocr_reader, image_content, simple, text,
                   pass, processed_images, x, now, hist, threads, reader_log, call>>

\* _simple_rotational_ocr, lines 257-272 and 302-304: building the five variants; a
\* failure here is caught and the fast path yields ""
SimplePrepare ==
    /\ pc = "simple_prepare"
    /\ \/ /\ simple' = [IdleSimple EXCEPT !.index = 1]
          /\ pc' = "simple"
       \/ /\ simple' = IdleSimple
          /\ pc' = "simple_decide"
    /\ UNCHANGED <<env, easyocr_reader, rapidocr_reader, image_content, image, text,
                   pass, processed_images, x, now, result, hist, threads, reader_log, call>>

\* lines 281-299: the variant's text is kept when it scores higher
SimpleKeep(out, score) ==
    LET better == ~out.raised /\ out.value # <<>> /\ score > simple.best_score
    IN  /\ simple' = [simple EXCEPT
                        !.index = @ + 1,
                        !.best_text = IF better THEN out.value ELSE @,
                        !.best_score = IF better THEN score ELSE @]
        /\ hist' = [hist EXCEPT !.no_text = @ /\ out.value = <<>>,
                                !.stage = FastPathRank]

\* _simple_rotational_ocr, lines 274-279: one Tesseract call on one variant
SimpleVariant ==
    /\ pc = "simple"
    /\ \E out \in SimpleOutcomes : SimpleKeep(out, SimpleVariantScore(out.value))
    /\ pc' = IF simple.index = NumSimpleVariants THEN "simple_decide" ELSE "simple"
    /\ UNCHANGED <<env, easyocr_reader, rapidocr_reader, image_content, image, text,
                   pass, processed_images, x, now, result, threads, reader_log, call>>

\* line 155: the thresholds of the fast path
GoodEnough(simple_score, has_email) ==
    \/ has_email /\ simple_score >= Frac(45, 100)
    \/ simple_score >= Frac(75, 100)

\* lines 155-170: the fast-path text is taken, or the heavy pipeline runs
SimpleTaken(simple_text, accept) ==
    /\ text' = IF accept THEN simple_text ELSE <<>>
    /\ hist' = [hist EXCEPT !.fast_accepted = accept /\ simple_text # <<>>,
                            !.fast_text = IF accept THEN simple_text ELSE <<>>]
    /\ pc' = IF text' = <<>> THEN "generate" ELSE "check_length"
    /\ pass' = IF text' = <<>> THEN "normal" ELSE pass

SimpleJudged(simple_text) ==
    SimpleTaken(simple_text,
                /\ simple.best_text # <<>>
                /\ GoodEnough(ScoreOcrText(simple_text), HasEmail(simple_text)))

\* scan_image, lines 149-170: accept the fast-path text or go on
SimpleDecide ==
    /\ pc = "simple_decide"
    /\ SimpleJudged(PostProcessText(simple.best_text))
    /\ simple' = IdleSimple
    /\ UNCHANGED <<env, easyocr_reader, rapidocr_reader, image_content, image,
                   processed_images, x, now, result, threads, reader_log, call>>

(***************************************************************************)
(* _extract_text_with_ocr.                                                 *)
(***************************************************************************)
\* within_budget() (lines 711-712)
WithinBudget == now < x.max_time_budget

NoScore == -1

EntryScore(e) == e[1].score

\* a register_text that records an attempt whatever its score
RegisterScoredAnyScore(xx, processed, score, source, variant) ==
    LET entry == [score |-> score, text |-> processed, source |-> source,
                  variant |-> variant]
    IN  IF processed = <<>> \/ processed \in xx.seen_texts
        THEN [x |-> xx, stop |-> FALSE]
        ELSE [x |-> [xx EXCEPT !.ocr_results = Append(@, entry),
                               !.seen_texts = @ \cup {processed},
                               !.best_entry = <<entry>>],
              stop |-> score >= Frac(9, 10) /\ HasEmail(processed)]

\* a register_text that does not look at seen_texts
RegisterScoredAgain(xx, processed, score, source, variant) ==
    LET entry == [score |-> score, text |-> processed, source |-> source,
                  variant |-> variant]
        better == \/ xx.best_entry = NoEntry
                  \/ score > EntryScore(xx.best_entry)
                  \/ /\ score = EntryScore(xx.best_entry)
                     /\ Len(processed) > Len(xx.best_entry[1].text)
    IN  IF processed = <<>> \/ score < Frac(2, 10)
        THEN [x |-> xx, stop |-> FALSE]
        ELSE [x |-> [xx EXCEPT !.ocr_results = Append(@, entry),
                               !.seen_texts = @ \cup {processed},
                               !.best_entry = IF better THEN <<entry>> ELSE @],
              stop |-> score >= Frac(9, 10) /\ HasEmail(processed)]

\* register_text (lines 720-752): the locals after the call and whether it
\* asks for the early exit
RegisterScored(xx, processed, score, source, variant) ==
    LET entry == [score |-> score, text |-> processed, source |-> source,
                  variant |-> variant]
        better == \/ xx.best_entry = NoEntry
                  \/ score > EntryScore(xx.best_entry)
                  \/ /\ score = EntryScore(xx.best_entry)
                     /\ Len(processed) > Len(xx.best_entry[1].text)
    IN  IF \/ processed = <<>>
           \/ processed \in xx.seen_texts
           \/ score < Frac(2, 10)
        THEN [x |-> xx, stop |-> FALSE]
        ELSE [x |-> [xx EXCEPT !.ocr_results = Append(@, entry),
                               !.seen_texts = @ \cup {processed},
                               !.best_entry = IF better THEN <<entry>> ELSE @],
              stop |-> score >= Frac(9, 10) /\ HasEmail(processed)]

RegisterProcessed(xx, processed, source, variant, base_score) ==
    RegisterScored(xx, processed,
                   IF base_score # NoScore THEN base_score ELSE ScoreOcrText(processed),
                   source, variant)

RegisterText(xx, txt, source, variant, base_score) ==
    IF txt = <<>> THEN [x |-> xx, stop |-> FALSE]
    ELSE RegisterProcessed(xx, PostProcessOr(CleanOcrText(txt)), source, variant,
                           base_score)

\* an engine of the given stage is invoked now and answers with text or not
Invoked(h, stage, answered) ==
    [h EXCEPT !.calls[stage] = @ + 1,
              !.late = IF WithinBudget THEN @ ELSE @ \cup {stage},
              !.stage = IF StageRank(stage) = 0 THEN @ ELSE StageRank(stage),
              !.pass_stage = IF StageRank(stage) = 0 THEN @ ELSE StageRank(stage),
              !.no_text = @ /\ ~answered]

\* what the RapidOCR reader can read off a card: nothing, or (text,
\* confidence) entries
RapidAnswers(card) ==
    CASE card = EmailCard -> {<<>>, <<[text |-> TxtEmailMid, score |-> 90]>>}
      [] card = NoisyCard ->
            {<<>>,
             <<[text |-> TxtEmailMid, score |-> 90]>>,
             <<[text |-> TxtAb, score |-> 80], [text |-> None, score |-> 80],
               [text |-> TxtName, score |-> 30]>>}
      [] card = FaintCard -> {<<>>, <<[text |-> TxtVowels, score |-> 90]>>}
      [] OTHER -> {<<>>}

\* what the EasyOCR reader can read off a card: a list of paragraphs
EasyAnswers(card) ==
    CASE card = NoisyCard -> {<<>>, <<TxtName>>}
      [] card = FaintCard -> {<<>>, <<TxtVowels>>}
      [] OTHER -> {<<>>}

\* what pytesseract.image_to_string can read off a card in the heavy pipeline
TesseractTexts(card) ==
    CASE card = EmailCard -> {<<>>, TxtEmailHigh}
      [] card = LongCard -> {<<>>, TxtLong}
      [] card = NoisyCard -> {<<>>, TxtJunk, TxtEmailHigh}
      [] card = DimCard -> {<<>>, TxtName, TxtEmailDim}
      [] card = FaintCard -> {<<>>, TxtCons}
      [] OTHER -> {<<>>}

\* what pytesseract.image_to_data can read off a card: words with confidences
DataAnswers(card) ==
    CASE card = NoisyCard ->
            {<<>>,
             <<[text |-> <<"x", "q">>, conf |-> 75, block_num |-> 1, par_num |-> 1,
                line_num |-> 1],
               [text |-> <<"z", "t">>, conf |-> 75, block_num |-> 1, par_num |-> 1,
                line_num |-> 1]>>}
      [] OTHER -> {<<>>}

\* how a call can end on the card being scanned
RapidOutcomes == Outcomes(RapidAnswers(Card(image_content)))

EasyOutcomes == Outcomes(EasyAnswers(Card(image_content)))

TesseractOutcomes == Outcomes(TesseractTexts(Card(image_content)))

DataOutcomes == Outcomes(DataAnswers(Card(image_content)))

\* _rapidocr_fallback: the reader is fetched (and built if need be); with a
\* reader and numpy the engine is called.  answer is the outcome of that call
RapidOcrFallback(built, answer) ==
    LET g == GetReader(env.rapid, env.np, rapidocr_reader, built)
        called == g.ret # None /\ env.np
    IN  [field |-> g.field, called |-> called,
         text |-> IF ~called \/ answer.raised THEN <<>> ELSE RapidLines(answer.value)]

\* _easyocr_fallback, likewise
EasyOcrFallback(built, answer) ==
    LET g == GetReader(env.easy, TRUE, easyocr_reader, built)
        called == g.ret # None /\ env.np
    IN  [field |-> g.field, called |-> called,
         text |-> IF ~called \/ answer.raised THEN <<>> ELSE EasyLines(answer.value)]

\* how the steps go in the scans followed here: every step fails, except
\* that _preprocess_image and _aggressive_preprocess may hand back their input
ScanVariantOutcomes ==
    {o \in VariantOutcomes(env.opencv, env.np) :
        /\ o.grayscale = Failed /\ o.autocontrast = Failed /\ o.equalize = Failed
        /\ o.pil_binarize = Failed /\ o.opencv_binarize = Failed /\ o.clahe = Failed
        /\ o.preprocess # PreprocessId
        /\ o.aggressive # AggressiveId}

\* scan_image, lines 174-179 and 189-194: the variants of this pass
GenerateVariants ==
    /\ pc = "generate"
    /\ \E o \in ScanVariantOutcomes :
        processed_images' =
            GenerateProcessedImages(o, pass = "aggressive",
                                    IF pass = "aggressive" THEN 2 ELSE 4)
    /\ pc' = "extract"
    /\ UNCHANGED <<env, easyocr_reader, rapidocr_reader, image_content, image, simple,
                   text, pass, x, now, result, hist, threads, reader_log, call>>

\* lines 700-718: the budget clock starts
ExtractStart ==
    /\ pc = "extract"
    /\ x' = [IdleX EXCEPT !.max_time_budget = MaxTimeBudget(env.budget)]
    /\ now' = 0
    /\ hist' = [hist EXCEPT !.heavy_runs = @ + 1,
                            !.heard = <<>>,
                            !.calls = [st \in Stages |-> 0],
                            !.late = {},
                            !.pass_stage = 0]
    /\ pc' = "rapid_first"
    /\ UNCHANGED <<env, easyocr_reader, rapidocr_reader, image_content, image, simple,
                   text, pass, processed_images, result, threads, reader_log, call>>

\* the clock and the history after a fallback r was asked: the engine ran
\* for d seconds if it was called at all
EngineAsked(r, d, stage) ==
    IF r.called
    THEN Tick(d) /\ hist' = Invoked(hist, stage, r.text # <<>>)
    ELSE d = 0 /\ now' = now /\ hist' = hist

\* the same for the RapidOCR pass of lines 754-765 and the fall-backs of
\* lines 888-922, whose text the history keeps
FallbackHeard(r, d, stage) ==
    IF r.called
    THEN Tick(d) /\ hist' = [Invoked(hist, stage, r.text # <<>>) EXCEPT !.heard = r.text]
    ELSE d = 0 /\ now' = now /\ hist' = [hist EXCEPT !.heard = <<>>]

\* lines 763-765: the text is registered and remembered for the end
RapidPrimary(reg, primary) ==
    [reg EXCEPT !.rapid_primary_text = primary,
                !.rapid_primary_score = ScoreOcrText(primary)]

\* lines 756-765: a good RapidOCR text with an e-mail address is returned
RapidFirstTaken(rapid_text, score, accept) ==
    /\ x' = IF rapid_text = <<>> THEN x
            ELSE IF accept
            THEN [x EXCEPT !.rapid_primary_text = rapid_text,
                           !.rapid_primary_score = score,
                           !.ret = rapid_text]
            ELSE RapidPrimary(RegisterText(x, rapid_text, "rapidocr", -1, score).x,
                              PostProcessOr(rapid_text))
    /\ pc' = IF accept THEN "return" ELSE "build_images"

\* a first pass that never returns at once
RapidFirstNeverAccepted(rapid_text, score) ==
    RapidFirstTaken(rapid_text, score, FALSE)

RapidFirstScored(rapid_text, score) ==
    RapidFirstTaken(rapid_text, score,
                    rapid_text # <<>> /\ score >= Frac(55, 100) /\ HasEmail(rapid_text))

RapidFirstAnswered(r, d) ==
    /\ rapidocr_reader' = r.field
    /\ FallbackHeard(r, d, "rapid_first")
    /\ RapidFirstScored(r.text, ScoreOcrText(r.text))

\* lines 754-765: RapidOCR first
RapidFirst ==
    /\ pc = "rapid_first"
    /\ IF env.rapid /\ WithinBudget
       THEN \E built \in BOOLEAN, answer \in RapidOutcomes, d \in Ticks :
              RapidFirstAnswered(RapidOcrFallback(built, answer), d)
       ELSE /\ pc' = "build_images"
            /\ UNCHANGED <<rapidocr_reader, x, now, hist>>
    /\ UNCHANGED <<env, easyocr_reader, image_content, image, simple, text, pass,
                   processed_images, result, threads, reader_log, call>>

\* lines 767-795: the images to try
BuildImages ==
    /\ pc = "build_images"
    /\ \E inverted \in [1..2 -> BOOLEAN] :
        x' = [x EXCEPT !.images_to_try = BuildImagesToTry(processed_images, OrigId, inverted),
                       !.image_index = 1,
                       !.config_index = 1,
                       !.stop_requested = FALSE]
    /\ pc' = "primary_string"
    /\ UNCHANGED <<env, easyocr_reader, rapidocr_reader, image_content, image, simple,
                   text, pass, processed_images, now, result, hist, threads, reader_log, call>>

PrimaryConfigs == <<"psm6_whitelist", "psm6">>

SecondaryConfigs == <<"psm11">>

\* where the orchestrator goes when the loops are over (line 852)
AfterLoops(xx) == IF xx.ocr_results = <<>> THEN "fallback_easy" ELSE "merge"

\* the loop position after the current (image, config) pair
NextAttempt(xx) ==
    IF xx.config_index < Len(PrimaryConfigs)
    THEN [xx EXCEPT !.config_index = @ + 1]
    ELSE [xx EXCEPT !.image_index = @ + 1, !.config_index = 1]

\* a line 834 that asks for nothing but time
SecondaryWhileInBudget(xx, in_budget) == in_budget

\* line 834: whether the secondary configs are tried at all
SecondaryWanted(xx, in_budget) ==
    /\ ~xx.stop_requested
    /\ in_budget
    /\ (xx.best_entry = NoEntry \/ EntryScore(xx.best_entry) < Frac(6, 10))

\* leaving the primary loop: lines 833-835 and 852
LeavePrimary(xx, in_budget) ==
    IF SecondaryWanted(xx, in_budget) THEN "secondary" ELSE AfterLoops(xx)

\* lines 808-819 with the result of register_text ignored: a faulty
\* variant of PrimaryStringRead, which the early exit must reject
PrimaryStringKeepsOn(raw_text, reg) ==
    IF raw_text.raised
    THEN /\ x' = NextAttempt(x)
         /\ pc' = "primary_string"
         /\ hist' = Invoked(hist, "primary_string", FALSE)
    ELSE /\ x' = reg.x
         /\ pc' = "primary_data"
         /\ hist' = Invoked(hist, "primary_string", raw_text.value # <<>>)

\* lines 808-819: what image_to_string returned is registered
PrimaryStringRead(raw_text, reg) ==
    IF raw_text.raised
    THEN /\ x' = NextAttempt(x)
         /\ pc' = "primary_string"
         /\ hist' = Invoked(hist, "primary_string", FALSE)
    ELSE /\ x' = [reg.x EXCEPT !.stop_requested = reg.stop]
         /\ pc' = IF reg.stop THEN "primary_string" ELSE "primary_data"
         /\ hist' = Invoked(hist, "primary_string", raw_text.value # <<>>)

\* lines 796-819: the loop heads and one image_to_string call
PrimaryString ==
    /\ pc = "primary_string"
    /\ IF \/ x.image_index > Len(x.images_to_try)
          \/ x.stop_requested
          \/ ~WithinBudget
       THEN /\ pc' = LeavePrimary(x, WithinBudget)
            /\ x' = [x EXCEPT !.image_index = 1]
            /\ UNCHANGED <<now, hist>>
       ELSE \E raw_text \in TesseractOutcomes, d \in Ticks :
              /\ Tick(d)
              /\ PrimaryStringRead(raw_text,
                                   RegisterText(x, raw_text.value,
                                                PrimaryConfigs[x.config_index] \o "_string",
                                                x.image_index - 1, NoScore))
    /\ UNCHANGED <<env, easyocr_reader, rapidocr_reader, image_content, image, simple,
                   text, pass, processed_images, result, threads, reader_log, call>>

\* lines 826-831: the text of the confident words is registered
PrimaryDataRegistered(data, reg) ==
    /\ hist' = Invoked(hist, "primary_data", data.text # <<>>)
    /\ x' = IF reg.stop THEN [reg.x EXCEPT !.stop_requested = TRUE]
            ELSE NextAttempt(reg.x)

\* lines 823-825: the score is the better of the text's and the words'
PrimaryDataRead(data) ==
    PrimaryDataRegistered(data,
                          RegisterText(x, data.text,
                                       PrimaryConfigs[x.config_index] \o "_data",
                                       x.image_index - 1,
                                       Max(ScoreOcrText(data.text), data.conf + Frac(1, 10))))

\* lines 821-831: the word-confidence reading of the same image and config
PrimaryData ==
    /\ pc = "primary_data"
    /\ IF WithinBudget /\ (x.best_entry = NoEntry \/ EntryScore(x.best_entry) < Frac(9, 10))
       THEN \E answer \in DataOutcomes, d \in Ticks :
              /\ Tick(d)
              /\ PrimaryDataRead(IF answer.raised THEN [text |-> <<>>, conf |-> 0]
                                 ELSE ExtractTextFromData(answer.value))
       ELSE /\ x' = NextAttempt(x)
            /\ UNCHANGED <<now, hist>>
    /\ pc' = "primary_string"
    /\ UNCHANGED <<env, easyocr_reader, rapidocr_reader, image_content, image, simple,
                   text, pass, processed_images, result, threads, reader_log, call>>

\* lines 840-850: what image_to_string returned is registered
SecondaryRead(raw_text, reg) ==
    IF raw_text.raised
    THEN /\ x' = [x EXCEPT !.image_index = @ + 1]
         /\ hist' = Invoked(hist, "secondary", FALSE)
    ELSE /\ x' = [reg.x EXCEPT !.image_index = @ + 1,
                               !.stop_requested = reg.stop]
         /\ hist' = Invoked(hist, "secondary", raw_text.value # <<>>)

\* lines 835-850: one image_to_string call with the sparse configuration
Secondary ==
    /\ pc = "secondary"
    /\ IF \/ x.image_index > Min(2, Len(x.images_to_try))
          \/ x.stop_requested
          \/ ~WithinBudget
       THEN /\ pc' = AfterLoops(x)
            /\ UNCHANGED <<x, now, hist>>
       ELSE \E raw_text \in TesseractOutcomes, d \in Ticks :
              /\ Tick(d)
              /\ pc' = "secondary"
              /\ SecondaryRead(raw_text,
                               RegisterText(x, raw_text.value,
                                            SecondaryConfigs[1] \o "_string",
                                            x.image_index - 1, NoScore))
    /\ UNCHANGED <<env, easyocr_reader, rapidocr_reader, image_content, image, simple,
                   text, pass, processed_images, result, threads, reader_log, call>>

\* a chain of fall-backs that goes on to RapidOCR whatever EasyOCR has read
FallbackEasyKeepsOn(easy_text) ==
    /\ x' = [x EXCEPT !.ret = easy_text]
    /\ pc' = "fallback_rapid"

\* lines 856-859: a text from EasyOCR is returned at once
FallbackEasyText(easy_text) ==
    /\ x' = [x EXCEPT !.ret = easy_text]
    /\ pc' = IF easy_text # <<>> THEN "return" ELSE "fallback_rapid"

FallbackEasyAnswered(r, d) ==
    /\ easyocr_reader' = r.field
    /\ EngineAsked(r, d, "fallback_easy")
    /\ FallbackEasyText(PostProcessOr(r.text))

\* lines 852-859: no candidate at all; EasyOCR is asked first
FallbackEasy ==
    /\ pc = "fallback_easy"
    /\ IF WithinBudget
       THEN \E built \in BOOLEAN, answer \in EasyOutcomes, d \in Ticks :
              FallbackEasyAnswered(EasyOcrFallback(built, answer), d)
       ELSE /\ pc' = "fallback_rapid"
            /\ UNCHANGED <<easyocr_reader, x, now, hist>>
    /\ UNCHANGED <<env, rapidocr_reader, image_content, image, simple, text, pass,
                   processed_images, result, threads, reader_log, call>>

FallbackRapidAnswered(r, d) ==
    /\ rapidocr_reader' = r.field
    /\ EngineAsked(r, d, "fallback_rapid")
    /\ x' = [x EXCEPT !.ret = r.text]
    /\ pc' = IF r.text # <<>> THEN "return" ELSE "fallback_tesseract"

\* lines 860-863: then RapidOCR
FallbackRapid ==
    /\ pc = "fallback_rapid"
    /\ IF env.rapid
       THEN \E built \in BOOLEAN, answer \in RapidOutcomes, d \in Ticks :
              FallbackRapidAnswered(RapidOcrFallback(built, answer), d)
       ELSE /\ pc' = "fallback_tesseract"
            /\ UNCHANGED <<rapidocr_reader, x, now, hist>>
    /\ UNCHANGED <<env, easyocr_reader, image_content, image, simple, text, pass,
                   processed_images, result, threads, reader_log, call>>

\* lines 864-870: then one plain Tesseract call
FallbackTesseract ==
    /\ pc = "fallback_tesseract"
    /\ \E fallback_text \in TesseractOutcomes, d \in Ticks :
        /\ Tick(d)
        /\ hist' = Invoked(hist, "fallback_tesseract",
                           fallback_text.value # <<>>)
        /\ x' = [x EXCEPT !.ret = IF fallback_text.raised THEN <<>>
                                  ELSE PostProcessText(CleanOcrText(fallback_text.value))]
    /\ pc' = "return"
    /\ UNCHANGED <<env, easyocr_reader, rapidocr_reader, image_content, image, simple,
                   text, pass, processed_images, result, threads, reader_log, call>>

\* the sort key of line 872, compared as tuples
KeyGreater(a, b) ==
    \/ a.score > b.score
    \/ a.score = b.score /\ Len(a.text) > Len(b.text)

\* list.sort(key=..., reverse=True): descending and stable
RECURSIVE SortCandidates(_)
InsertCandidate(rest, e) ==
    SelectSeq(rest, LAMBDA r : ~KeyGreater(e, r)) \o <<e>>
        \o SelectSeq(rest, LAMBDA r : KeyGreater(e, r))

SortCandidates(entries) ==
    IF entries = <<>> THEN <<>>
    ELSE InsertCandidate(SortCandidates(SubSeq(entries, 1, Len(entries) - 1)),
                         entries[Len(entries)])

\* lines 876-879: merge the candidates close to the best one
RECURSIVE MergeClose(_, _, _)
MergeClose(best_text, best_score, candidates) ==
    IF candidates = <<>> THEN best_text
    ELSE IF candidates[1].score < Max(best_score - Frac(18, 100), Frac(25, 100))
    THEN MergeClose(best_text, best_score, Tail(candidates))
    ELSE MergeClose(MergeText(best_text, candidates[1].text), best_score,
                    Tail(candidates))

\* lines 881-885: recover the e-mail line from the first candidate that has one
RecoverEmail(best_text, candidates) ==
    LET with_email == {i \in 1..Len(candidates) : HasEmail(candidates[i].text)}
    IN  IF HasEmail(best_text) \/ with_email = {} THEN best_text
        ELSE MergeText(best_text, candidates[MinOf(with_email)].text)

\* lines 873-887: the text made of the sorted candidates
MergedText(sorted) ==
    PostProcessText(
        RecoverEmail(MergeClose(sorted[1].text, sorted[1].score, Tail(sorted)), sorted))

MergeSorted(sorted) ==
    x' = [x EXCEPT !.ocr_results = sorted,
                   !.best_text = MergedText(sorted),
                   !.best_score = sorted[1].score]

\* lines 872-887: sort, merge, recover the e-mail, filter
Merge ==
    /\ pc = "merge"
    /\ MergeSorted(SortCandidates(x.ocr_results))
    /\ pc' = "post_easy"
    /\ UNCHANGED <<env, easyocr_reader, rapidocr_reader, image_content, image, simple,
                   text, pass, processed_images, now, result, hist, threads, reader_log, call>>

\* lines 899-901 and 916-918: the merged text and its score
Rescored(xx, kept) == [xx EXCEPT !.best_text = kept, !.best_score = ScoreOcrText(kept)]

AdoptScored(xx, new_text, new_score, margin, floor) ==
    IF new_text = <<>> THEN xx
    ELSE IF new_score > xx.best_score
    THEN [xx EXCEPT !.best_text = new_text, !.best_score = new_score]
    ELSE IF new_score >= Max(xx.best_score - margin, floor)
    THEN Rescored(xx, PostProcessOr(MergeText(xx.best_text, new_text)))
    ELSE xx

\* lines 893-905 and 910-922: take the fallback text, merge it, or drop it
Adopt(xx, new_text, margin, floor) ==
    AdoptScored(xx, new_text, ScoreOcrText(new_text), margin, floor)

PostEasyAnswered(r, d) ==
    /\ easyocr_reader' = r.field
    /\ FallbackHeard(r, d, "post_easy")
    /\ x' = Adopt(x, PostProcessOr(r.text), Frac(1, 10), Frac(25, 100))

\* lines 888-905: EasyOCR when the result is weak
PostEasy ==
    /\ pc = "post_easy"
    /\ IF WithinBudget /\ x.best_score < Frac(5, 10)
       THEN \E built \in BOOLEAN, answer \in EasyOutcomes, d \in Ticks :
              PostEasyAnswered(EasyOcrFallback(built, answer), d)
       ELSE UNCHANGED <<easyocr_reader, x, now, hist>>
    /\ pc' = "post_rapid"
    /\ UNCHANGED <<env, rapidocr_reader, image_content, image, simple, text, pass,
                   processed_images, result, threads, reader_log, call>>

PostRapidAnswered(r, d) ==
    /\ rapidocr_reader' = r.field
    /\ FallbackHeard(r, d, "post_rapid")
    /\ x' = Adopt(x, r.text, Frac(12, 100), Frac(3, 10))

\* lines 907-922: RapidOCR when the result is still weak
PostRapid ==
    /\ pc = "post_rapid"
    /\ IF env.rapid /\ WithinBudget /\ x.best_score < Frac(5, 10)
       THEN \E built \in BOOLEAN, answer \in RapidOutcomes, d \in Ticks :
              PostRapidAnswered(RapidOcrFallback(built, answer), d)
       ELSE UNCHANGED <<rapidocr_reader, x, now, hist>>
    /\ pc' = "finish"
    /\ UNCHANGED <<env, easyocr_reader, image_content, image, simple, text, pass,
                   processed_images, result, threads, reader_log, call>>

\* lines 929-936: which of the two texts is returned
PreferScored(best_text, best_score, rapid_text, rapid_score) ==
    IF \/ best_score < Frac(55, 100) /\ rapid_score >= Frac(45, 100)
       \/ TextIsGibberish(best_text) /\ 10 * rapid_score >= 8 * best_score
    THEN rapid_text ELSE best_text

PreferText(best_text, best_score, rapid_text) ==
    PreferScored(best_text, best_score, rapid_text, ScoreOcrText(rapid_text))

\* lines 924-938: prefer the text of the first RapidOCR pass, and return
PreferRapid(best_text, best_score, rapid_primary_text) ==
    PreferText(best_text, best_score, PostProcessOr(rapid_primary_text))

Finish ==
    /\ pc = "finish"
    /\ x' = [x EXCEPT !.ret =
                IF x.rapid_primary_text = None \/ x.rapid_primary_text = <<>>
                THEN x.best_text
                ELSE PreferRapid(x.best_text, x.best_score, x.rapid_primary_text)]
    /\ pc' = "return"
    /\ UNCHANGED <<env, easyocr_reader, rapidocr_reader, image_content, image, simple,
                   text, pass, processed_images, now, result, hist, threads, reader_log, call>>

(***************************************************************************)
(* Contact field extractor.                                                *)
(***************************************************************************)
ToUpper(s) == [i \in 1..Len(s) |-> ToUpperChar(s[i])]

\* str.title()
Title(s) ==
    [i \in 1..Len(s) |->
        IF ~IsAlpha(s[i]) THEN s[i]
        ELSE IF i = 1 \/ ~IsAlpha(s[i - 1]) THEN ToUpperChar(s[i])
        ELSE ToLowerChar(s[i])]

\* str.replace(old, new) for one-character old and new
ReplaceChar(s, old, new) == [i \in 1..Len(s) |-> IF s[i] = old THEN new ELSE s[i]]

\* str.startswith
StartsWith(s, prefix) == Len(s) >= Len(prefix) /\ SubSeq(s, 1, Len(prefix)) = prefix

\* the literal lit at position i of s, whatever the case
LiteralAt(s, i, lit) ==
    /\ i >= 1
    /\ i + Len(lit) - 1 <= Len(s)
    /\ ToLower(SubSeq(s, i, i + Len(lit) - 1)) = ToLower(lit)

\* first position from i on that is not white space
SkipSpaces(s, i) ==
    LET stops == {j \in i..Len(s) : ~IsSpace(s[j])}
    IN  IF stops = {} THEN Len(s) + 1 ELSE MinOf(stops)

\* lit is at j; e is its last position
CommaCredEnd(s, e) ==
    IF e < Len(s) /\ (IsSpace(s[e + 1]) \/ s[e + 1] = ",") THEN e + 1
    ELSE IF e = Len(s) THEN e
    ELSE 0

CommaCredFrom(s, j, lit) ==
    IF ~LiteralAt(s, j, lit) THEN 0 ELSE CommaCredEnd(s, j + Len(lit) - 1)

\* end of a match of ,\s*LIT(?:\s|,|$) that starts at i, or 0
CommaCredEndAt(s, i, lit) ==
    IF i > Len(s) \/ s[i] # "," THEN 0 ELSE CommaCredFrom(s, SkipSpaces(s, i + 1), lit)

\* re.sub(r',\s*LIT(?:\s|,|$)', '', s, flags=re.IGNORECASE)
RECURSIVE SubCommaCred(_, _)
SubCommaCredAt(s, lit, st) ==
    SubSeq(s, 1, st - 1)
        \o SubCommaCred(SubSeq(s, CommaCredEndAt(s, st, lit) + 1, Len(s)), lit)

SubCommaCred(s, lit) ==
    LET starts == {i \in 1..Len(s) : CommaCredEndAt(s, i, lit) # 0}
    IN  IF starts = {} THEN s ELSE SubCommaCredAt(s, lit, MinOf(starts))

\* re.sub(r'\s+LIT$', '', s, flags=re.IGNORECASE)
SubTrailingCred(s, lit) ==
    LET k == Len(s) - Len(lit) + 1
        spaces == {i \in 1..(k - 1) : \A j \in i..(k - 1) : IsSpace(s[j])}
    IN  IF k >= 2 /\ LiteralAt(s, k, lit) /\ spaces # {}
        THEN SubSeq(s, 1, MinOf(spaces) - 1)
        ELSE s

Credentials ==
    <<<<"M","S","N">>, <<"R","N">>, <<"M","D">>, <<"D","O">>, <<"P","A">>,
      <<"N","P">>, <<"L","P","N">>, <<"B","S","N">>, <<"M","B","A">>,
      <<"P","h","D">>, <<"D","N","P">>>>

NameTitles ==
    <<
      <<"P","a","t","i","e","n","t"," ","C","a","r","e"," ","M","a","n","a","g","e","r">>,
      <<"M","a","n","a","g","e","r">>, <<"D","i","r","e","c","t","o","r">>,
      <<"C","o","o","r","d","i","n","a","t","o","r">>,
      <<"S","p","e","c","i","a","l","i","s","t">>,
      <<"A","s","s","i","s","t","a","n","t">>>>

\* the substitutions of _clean_name_line, one literal after the other (the
\* test on Len makes TLC compute each step before the next one)
RECURSIVE RemoveAll(_, _)
RemoveRest(cleaned, lits) ==
    IF Len(cleaned) >= 0 THEN RemoveAll(cleaned, Tail(lits)) ELSE cleaned

RemoveAll(s, lits) ==
    IF lits = <<>> THEN s
    ELSE RemoveRest(SubTrailingCred(SubCommaCred(s, lits[1]), lits[1]), lits)

\* _clean_name_line
CleanNameLine(line) == Strip(RemoveAll(RemoveAll(line, Credentials), NameTitles))

NameSkipWords ==
    {<<"i","n","c">>, <<"l","l","c">>, <<"c","o","r","p">>,
     <<"c","o","m","p","a","n","y">>, <<"h","o","s","p","i","t","a","l">>,
     <<"m","e","d","i","c","a","l">>, <<"h","e","a","l","t","h">>,
     <<"c","e","n","t","e","r">>, <<"c","l","i","n","i","c">>,
     <<"t","h","e">>, <<"a","n","d">>, <<"o","f">>, <<"f","o","r">>,
     <<"h","o","s","p","i","c","e">>}

NameSkipCredentials ==
    {<<"M","S","N">>, <<"R","N">>, <<"M","D">>, <<"D","O">>, <<"P","A">>,
     <<"N","P">>, <<"L","P","N">>, <<"B","S","N">>, <<"M","B","A">>,
     <<"P","h","D">>}

\* re.search(r'\d{3,}', word)
HasThreeDigits(s) == \E i \in 1..Len(s) : DigitsAt(s, i, 3)

\* str.isalpha()
IsAlphaStr(s) == s # <<>> /\ \A i \in 1..Len(s) : IsAlpha(s[i])

\* strategy 3 of _extract_name: the words that can be part of a name
NameCandidates(txt) ==
    SelectSeq(SplitWords(txt),
              LAMBDA word :
                  /\ ~HasEmail(word)
                  /\ ~HasThreeDigits(word)
                  /\ ToLower(word) \notin NameSkipWords
                  /\ ToUpper(word) \notin NameSkipCredentials
                  /\ word[1] \in Upper
                  /\ Len(word) > 1
                  /\ IsAlphaStr(SelectSeq(word, LAMBDA c : c \notin {".", "-"})))

\* strategy 2 of _extract_name: the name in the local part of the e-mail
NameFromParts(parts) ==
    IF Len(parts) = 2 THEN Title(parts[1]) \o <<" ">> \o Title(parts[2]) ELSE <<>>

NameFromEmail(txt) ==
    IF HasEmail(txt)
    THEN NameFromParts(SplitOn(SplitOn(EmailGroup(txt), "@")[1], "."))
    ELSE <<>>

\* strategy 1 of _extract_name: a line of the first five that looks like a name
NameLine(line) == line # <<>> /\ LooksLikeName(line)

\* strategies 2 and 3, tried when no line looks like a name
NameFromWords(candidates) ==
    IF Len(candidates) >= 2 /\ Len(candidates) <= 4 THEN JoinWith(candidates, " ")
    ELSE None

\* strategies 3 and 2 in that order: the capitalized words come first
NameWordsFirst(txt, from_email) ==
    IF NameFromWords(NameCandidates(txt)) # None THEN NameFromWords(NameCandidates(txt))
    ELSE IF from_email # <<>> /\ LooksLikeName(from_email) THEN from_email
    ELSE None

NameElsewhere(txt, from_email) ==
    IF from_email # <<>> /\ LooksLikeName(from_email) THEN from_email
    ELSE NameFromWords(NameCandidates(txt))

NameAmong(txt, cleaned) ==
    LET named == {i \in 1..Len(cleaned) : NameLine(cleaned[i])}
    IN  IF named # {} THEN cleaned[MinOf(named)]
        ELSE NameElsewhere(txt, NameFromEmail(txt))

NameInLines(txt, lines) ==
    IF lines = <<>> THEN None
    ELSE NameAmong(txt, [i \in 1..Min(5, Len(lines)) |-> CleanNameLine(lines[i])])

\* _extract_name
ExtractName(txt) == NameInLines(txt, StrippedLines(txt))

NonCompanyWords ==
    {<<"p","h",":">>, <<"f","a","x",":">>, <<"y","o","u","r">>,
     <<"s","o","u","r","c","e">>,
     <<"m","e","d","i","c","a","l"," ","p","r","o","v","i","d","e","r","s">>}

StreetWords ==
    {<<"s","t">>, <<"a","v","e">>, <<"r","d">>, <<"b","l","v","d">>,
     <<"s","t","r","e","e","t">>, <<"a","v","e","n","u","e">>}

CompanyTitleKeywords ==
    {<<"m","a","n","a","g","e","r">>, <<"d","i","r","e","c","t","o","r">>,
     <<"c","o","o","r","d","i","n","a","t","o","r">>,
     <<"s","p","e","c","i","a","l","i","s","t">>,
     <<"a","s","s","i","s","t","a","n","t">>}

\* re.search(r'\d+.*(st|ave|rd|blvd|street|avenue)', s)
LooksLikeAddress(s) ==
    \E i \in 1..Len(s) :
        /\ IsDigit(s[i])
        /\ \E w \in StreetWords : Contains(SubSeq(s, i + 1, Len(s)), w)

\* re.search(r'\d{3}-\d{3}-\d{4}', s)
HasDashedPhone(s) ==
    \E i \in 1..Len(s) :
        /\ DigitsAt(s, i, 3) /\ DigitsAt(s, i + 4, 3) /\ DigitsAt(s, i + 8, 4)
        /\ s[i + 3] = "-" /\ s[i + 7] = "-"

\* the test _extract_company applies to one line
CompanyLine(line) ==
    /\ ~LooksLikeName(line)
    /\ \A w \in NonCompanyWords : ~Contains(ToLower(line), w)
    /\ ~LooksLikeAddress(ToLower(line))
    /\ ~HasDashedPhone(line)
    /\ ~StartsWith(line, <<"h","t","t","p">>)
    /\ ~StartsWith(line, <<"w","w","w",".">>)
    /\ ~((\E k \in CompanyTitleKeywords : Contains(ToLower(line), k)) /\ Len(line) < 30)
    /\ Len(line) > 3
    /\ Len(line) < 50
    /\ (~IsUpperStr(line) \/ Len(SplitWords(line)) <= 3)

\* the first of the lines that passes the test, stripped
FirstLine(lines, Passes(_)) ==
    LET found == {i \in 1..Len(lines) : Passes(lines[i])}
    IN  IF found = {} THEN None ELSE Strip(lines[MinOf(found)])

\* lines[:n]
FirstLines(lines, n) == SubSeq(lines, 1, Min(n, Len(lines)))

\* _extract_company
ExtractCompany(txt) == FirstLine(FirstLines(StrippedLines(txt), 5), CompanyLine)

Tlds ==
    {<<"c","o","m">>, <<"o","r","g">>, <<"n","e","t">>, <<"e","d","u">>,
     <<"g","o","v">>, <<"i","o">>, <<"c","o">>}

UrlChar(c) == IsWordChar(c) \/ c \in {".", "-"}

\* last position of the run of [\w.-] characters that starts at i (i - 1 if
\* there is none)
UrlRunEnd(s, i) ==
    LET stops == {j \in i..Len(s) : ~UrlChar(s[j])}
    IN  IF stops = {} THEN Len(s) ELSE MinOf(stops) - 1

\* position after https:// or http:// at i, or 0
AfterScheme(s, i) ==
    IF LiteralAt(s, i, <<"h","t","t","p","s",":","/","/">>) THEN i + 8
    ELSE IF LiteralAt(s, i, <<"h","t","t","p",":","/","/">>) THEN i + 7 ELSE 0

\* a run of at least one [\w.-] character starts at from
RunFrom(s, from) == from # 0 /\ UrlRunEnd(s, from) >= from

\* the leftmost match <<start, end>> of each pattern of _extract_website,
\* <<>> when there is none
HttpMatch(s) ==
    LET starts == {i \in 1..Len(s) : RunFrom(s, AfterScheme(s, i))}
    IN  IF starts = {} THEN <<>>
        ELSE <<MinOf(starts), UrlRunEnd(s, AfterScheme(s, MinOf(starts)))>>

WwwMatch(s) ==
    LET starts == {i \in 1..Len(s) :
                      LiteralAt(s, i, <<"w","w","w",".">>) /\ RunFrom(s, i + 4)}
    IN  IF starts = {} THEN <<>>
        ELSE <<MinOf(starts), UrlRunEnd(s, MinOf(starts) + 4)>>

DomainMatch(s) ==
    LET starts == {i \in 1..Len(s) :
                      /\ UrlChar(s[i])
                      /\ \E p \in (i + 1)..UrlRunEnd(s, i) :
                            s[p] = "." /\ \E t \in Tlds : LiteralAt(s, p + 1, t)}
    IN  IF starts = {} THEN <<>>
        ELSE <<MinOf(starts), UrlRunEnd(s, MinOf(starts))>>

\* str.lstrip('www.')
LStripWww(s) ==
    LET stops == {i \in 1..Len(s) : s[i] \notin {"w", "."}}
    IN  IF stops = {} THEN <<>> ELSE SubSeq(s, MinOf(stops), Len(s))

\* lines 1399-1403: the scheme is put in front when it is missing
WithScheme(website) ==
    IF StartsWith(website, <<"h","t","t","p">>) THEN website
    ELSE <<"h","t","t","p","s",":","/","/">> \o LStripWww(website)

WebsiteAt(txt, m) ==
    IF m = <<>> THEN None ELSE WithScheme(Strip(SubSeq(txt, m[1], m[2])))

\* the first of the matches that is there
FirstMatch(http, www, domain) ==
    IF http # <<>> THEN http ELSE IF www # <<>> THEN www ELSE domain

\* _extract_website
ExtractWebsite(txt) ==
    WebsiteAt(txt, FirstMatch(HttpMatch(txt), WwwMatch(txt), DomainMatch(txt)))

TitleKeywords ==
    {
     <<"P","a","t","i","e","n","t"," ","C","a","r","e"," ","M","a","n","a","g","e","r">>,
     <<"M","a","n","a","g","e","r">>, <<"D","i","r","e","c","t","o","r">>,
     <<"C","o","o","r","d","i","n","a","t","o","r">>,
     <<"S","p","e","c","i","a","l","i","s","t">>,
     <<"A","s","s","i","s","t","a","n","t">>,
     <<"E","x","e","c","u","t","i","v","e">>,
     <<"P","r","e","s","i","d","e","n","t">>, <<"V","P">>,
     <<"V","i","c","e"," ","P","r","e","s","i","d","e","n","t">>,
     <<"C","h","i","e","f">>, <<"L","e","a","d">>,
     <<"S","u","p","e","r","v","i","s","o","r">>}

CorporateWords ==
    {<<"i","n","c">>, <<"l","l","c">>, <<"c","o","r","p">>,
     <<"c","o","m","p","a","n","y">>}

\* the test _extract_title applies to one line
TitleLine(line) ==
    /\ ~LooksLikeName(line)
    /\ ~HasEmail(line)
    /\ ~HasThreeDigits(line)
    /\ \/ \E k \in TitleKeywords : Contains(ToLower(line), ToLower(k))
       \/ /\ Len(line) > 5
          /\ Len(line) < 40
          /\ \A i \in 1..Len(line) : ~IsDigit(line[i])
          /\ ~IsUpperStr(line)
          /\ \A w \in CorporateWords : ~Contains(ToLower(line), w)

\* _extract_title
ExtractTitle(txt) == FirstLine(FirstLines(StrippedLines(txt), 8), TitleLine)

\* company from the e-mail's domain (lines 1181-1186); <<>> stands for ''
DomainCompany(email_parts) ==
    IF Len(email_parts) = 2
    THEN Title(ReplaceChar(ReplaceChar(SplitOn(email_parts[2], ".")[1], "-", " "), "_", " "))
    ELSE None

CompanyFromEmail(email) == DomainCompany(SplitOn(email, "@"))

\* lines 1176-1178: the e-mail address, lower case
ExtractEmail(txt) == IF HasEmail(txt) THEN Strip(ToLower(EmailGroup(txt))) ELSE None

\* lines 1181-1186 and 1201-1202: the company is the e-mail's domain, or looked for in the text
CompanyOr(txt, from_domain) ==
    IF from_domain = None \/ from_domain = <<>> THEN ExtractCompany(txt) ELSE from_domain

CompanyFor(txt, email) ==
    CompanyOr(txt, IF email = None THEN None ELSE CompanyFromEmail(email))

\* lines 1162-1173 and 1189-1213: the record
ContactRecord(txt, email, name, name_parts) ==
    [first_name |-> IF name = None \/ name = <<>> THEN None
                    ELSE IF Len(name_parts) >= 2 THEN Strip(name_parts[1])
                    ELSE Strip(name),
     last_name |-> IF name = None \/ Len(name_parts) < 2 THEN None
                   ELSE Strip(JoinWith(Tail(name_parts), " ")),
     email |-> email,
     name |-> IF name = <<>> THEN None ELSE name,
     company |-> CompanyFor(txt, email),
     title |-> ExtractTitle(txt),
     phone |-> ExtractPhone(txt),
     website |-> ExtractWebsite(txt),
     address |-> None,
     notes |-> Strip(txt)]

ContactNamed(txt, email, name) ==
    ContactRecord(txt, email, name, IF name = None THEN <<>> ELSE SplitWords(name))

\* _parse_contact_info
ParseContactInfo(txt) == ContactNamed(txt, ExtractEmail(txt), ExtractName(txt))

(***************************************************************************)
(* scan_image after the heavy pipeline.                                    *)
(***************************************************************************)
\* the return of _extract_text_with_ocr with the length test of line 184
\* applied after the aggressive pass as well: a faulty variant of
\* ReturnText, which the limit of two heavy passes must reject
ReturnTextRecheck ==
    /\ pc = "return"
    /\ text' = x.ret
    /\ x' = IdleX
    /\ processed_images' = <<>>
    /\ now' = 0
    /\ hist' = [hist EXCEPT !.spent = @ + now, !.heard = <<>>]
    /\ pc' = "check_length"
    /\ UNCHANGED <<env, easyocr_reader, rapidocr_reader, image_content, image, simple,
                   pass, result, threads, reader_log, call>>

\* lines 181 and 194: text = self._extract_text_with_ocr(...)
ReturnText ==
    /\ pc = "return"
    /\ text' = x.ret
    /\ x' = IdleX
    /\ processed_images' = <<>>
    /\ now' = 0
    /\ hist' = [hist EXCEPT !.spent = @ + now, !.heard = <<>>]
    /\ pc' = IF pass = "normal" THEN "check_length" ELSE "parse"
    /\ UNCHANGED <<env, easyocr_reader, rapidocr_reader, image_content, image, simple,
                   pass, result, threads, reader_log, call>>

\* line 184: too little text sends the scan through the aggressive pass
CheckLength ==
    /\ pc = "check_length"
    /\ IF Len(Strip(text)) < MinTextLength
       THEN pass' = "aggressive" /\ pc' = "generate"
       ELSE pass' = pass /\ pc' = "parse"
    /\ UNCHANGED <<env, easyocr_reader, rapidocr_reader, image_content, image, simple,
                   text, processed_images, x, now, result, hist, threads, reader_log, call>>

\* lines 199-207: the contact record and the successful result
ParseContact ==
    /\ pc = "parse"
    /\ result' = <<[success |-> TRUE, error |-> <<>>,
                    contact |-> <<ParseContactInfo(text)>>, raw_text |-> text]>>
    /\ pc' = "done"
    /\ UNCHANGED <<env, easyocr_reader, rapidocr_reader, image_content, image, simple,
                   text, pass, processed_images, x, now, hist, threads, reader_log, call>>

Next ==
    \/ ScanImage
    \/ OpenImage
    \/ CropToCardBounds
    \/ CorrectOrientation
    \/ EnsureMinimumSize
    \/ SimplePrepare
    \/ SimpleVariant
    \/ SimpleDecide
    \/ GenerateVariants
    \/ ExtractStart
    \/ RapidFirst
    \/ BuildImages
    \/ PrimaryString
    \/ PrimaryData
    \/ Secondary
    \/ FallbackEasy
    \/ FallbackRapid
    \/ FallbackTesseract
    \/ Merge
    \/ PostEasy
    \/ PostRapid
    \/ Finish
    \/ ReturnText
    \/ CheckLength
    \/ ParseContact

\* one request at a time scans cards
Spec == Init /\ [][Next]_vars

(***************************************************************************)
(* One call of _extract_text_with_ocr, followed from its entry (line 179   *)
(* of scan_image) to its return statement, on every kind of card and with  *)
(* the full list of variants.                                              *)
(***************************************************************************)
ExtractCards == {BlankCard, EmailCard, NoisyCard, DimCard, FaintCard}

\* _generate_processed_images with every step failing, or every step
\* yielding a content of its own
ExtractVariantOutcomes ==
    {o \in VariantOutcomes(TRUE, TRUE) :
        \/ \A k \in DOMAIN o : o[k] = Failed
        \/ /\ o.grayscale = GrayId
           /\ o.autocontrast = AutoContrastId
           /\ o.equalize = EqualizeId
           /\ o.preprocess = PreprocessId
           /\ o.pil_binarize = PilBinarizeId
           /\ o.opencv_binarize = OpencvBinarizeId
           /\ o.clahe = ClaheId
           /\ o.aggressive = AggressiveId}

InitExtract ==
    /\ env \in {e \in Environments : e.easy /\ e.rapid /\ e.opencv /\ e.np}
    /\ easyocr_reader = None
    /\ rapidocr_reader = None
    /\ pc = "extract"
    /\ image_content \in {JpegMagic \o <<card>> : card \in ExtractCards}
    /\ image = <<MinDimension, MinDimension>>
    /\ simple = IdleSimple
    /\ text = <<>>
    /\ pass = "normal"
    /\ processed_images \in {GenerateProcessedImages(o, FALSE, 4) :
                                o \in ExtractVariantOutcomes}
    /\ x = IdleX
    /\ now = 0
    /\ result = <<>>
    /\ hist = [NoHist EXCEPT !.decoded = 1]
    /\ threads = [t \in Threads |-> IdleThread]
    /\ reader_log = NoReaderLog
    /\ call = NoCall

NextExtract ==
    \/ ExtractStart
    \/ RapidFirst
    \/ BuildImages
    \/ PrimaryString
    \/ PrimaryData
    \/ Secondary
    \/ FallbackEasy
    \/ FallbackRapid
    \/ FallbackTesseract
    \/ Merge
    \/ PostEasy
    \/ PostRapid
    \/ Finish

SpecExtract == InitExtract /\ [][NextExtract]_vars

(***************************************************************************)
(* The reader getters, statement by statement, called by several threads   *)
(* on the shared scanner.                                                  *)
(***************************************************************************)
\* calls of a getter one thread makes
MaxGetterCalls == 2

Reader == <<"reader">>

Field(engine) == IF engine = "easyocr" THEN easyocr_reader ELSE rapidocr_reader

\* self._easyocr_reader = value, or self._rapidocr_reader = value
SetField(engine, value) ==
    /\ easyocr_reader' = IF engine = "easyocr" THEN value ELSE easyocr_reader
    /\ rapidocr_reader' = IF engine = "rapidocr" THEN value ELSE rapidocr_reader

\* a thread enters _get_easyocr_reader or _get_rapidocr_reader
GetterCall(t) ==
    /\ threads[t].pc = "idle"
    /\ threads[t].calls < MaxGetterCalls
    /\ \E engine \in Engines :
        threads' = [threads EXCEPT ![t] = [pc |-> "check", engine |-> engine, ret |-> None,
                                           made |-> None, calls |-> @.calls + 1,
                                           after_failure |-> engine \in reader_log.failed]]
    /\ UNCHANGED <<env, easyocr_reader, rapidocr_reader, reader_log>>
    /\ UNCHANGED scanvars

\* lines 624-627 and 654-659: the tests before the constructor
GetterCheck(t) ==
    LET th == threads[t]
        available == IF th.engine = "easyocr" THEN env.easy ELSE env.rapid
    IN  /\ th.pc = "check"
        /\ threads' = [threads EXCEPT ![t].pc =
                          IF ~available THEN "idle"
                          ELSE IF Field(th.engine) # None THEN "return"
                          ELSE IF th.engine = "rapidocr" /\ ~env.np THEN "idle"
                          ELSE "construct"]
        /\ UNCHANGED <<env, easyocr_reader, rapidocr_reader, reader_log>>
        /\ UNCHANGED scanvars

\* lines 629 and 661, right-hand side: the constructor returns or raises
GetterConstruct(t) ==
    LET th == threads[t]
    IN  /\ th.pc = "construct"
        /\ \E built \in BOOLEAN :
            /\ threads' = [threads EXCEPT ![t].made = IF built THEN Reader ELSE None,
                                          ![t].pc = IF built THEN "store" ELSE "except"]
            /\ reader_log' = [reader_log EXCEPT
                                !.retried = IF th.after_failure
                                            THEN @ \cup {th.engine} ELSE @]
        /\ UNCHANGED <<env, easyocr_reader, rapidocr_reader>>
        /\ UNCHANGED scanvars

\* lines 629 and 661, the assignment
GetterStore(t) ==
    LET th == threads[t]
    IN  /\ th.pc = "store"
        /\ SetField(th.engine, th.made)
        /\ threads' = [threads EXCEPT ![t].pc = "return"]
        /\ UNCHANGED <<env, reader_log>>
        /\ UNCHANGED scanvars

\* lines 631-633 and 663-665: the except clause
GetterExcept(t) ==
    LET th == threads[t]
    IN  /\ th.pc = "except"
        /\ SetField(th.engine, None)
        /\ threads' = [threads EXCEPT ![t].pc = "return"]
        /\ reader_log' = [reader_log EXCEPT
                            !.failed = @ \cup {th.engine},
                            !.dropped = IF Field(th.engine) # None
                                        THEN @ \cup {th.engine} ELSE @]
        /\ UNCHANGED env
        /\ UNCHANGED scanvars

\* lines 627, 634, 657 and 666: return self._easyocr_reader
GetterReturn(t) ==
    LET th == threads[t]
    IN  /\ th.pc = "return"
        /\ threads' = [threads EXCEPT ![t].pc = "idle", ![t].ret = Field(th.engine)]
        /\ reader_log' = [reader_log EXCEPT
                            !.lost = IF th.made # None /\ Field(th.engine) = None
                                     THEN @ \cup {th.engine} ELSE @]
        /\ UNCHANGED <<env, easyocr_reader, rapidocr_reader>>
        /\ UNCHANGED scanvars

NextReaders ==
    \E t \in Threads :
        \/ GetterCall(t)
        \/ GetterCheck(t)
        \/ GetterConstruct(t)
        \/ GetterStore(t)
        \/ GetterExcept(t)
        \/ GetterReturn(t)

\* requests that reach the getters at the same time
SpecReaders == Init /\ [][NextReaders]_vars

(***************************************************************************)
(* Helpers called on their own, with arguments of every kind.              *)
(***************************************************************************)
\* the scanner at rest
IdleScan ==
    /\ easyocr_reader = None
    /\ rapidocr_reader = None
    /\ pc = "idle"
    /\ image_content = <<>>
    /\ image = <<>>
    /\ simple = IdleSimple
    /\ text = <<>>
    /\ pass = "none"
    /\ processed_images = <<>>
    /\ x = IdleX
    /\ now = 0
    /\ result = <<>>
    /\ hist = NoHist
    /\ threads = [t \in Threads |-> IdleThread]
    /\ reader_log = NoReaderLog

\* everything but the call under way
restvars == <<env, easyocr_reader, rapidocr_reader, pc, image_content, image, simple,
              text, pass, processed_images, x, now, result, hist, threads, reader_log>>

\* values of max_variants: none, those scan_image passes, and the default
MaxVariantsArguments == {0, 2, 4, 8}

\* _generate_processed_images(image, include_aggressive, max_variants) on an
\* image whose steps go as o says
InitVariants ==
    /\ env \in {e \in ScanEnvironments : e.budget # 0}
    /\ IdleScan
    /\ call \in [op : {"generate"},
                 o : VariantOutcomes(env.opencv, env.np),
                 include_aggressive : BOOLEAN,
                 max_variants : MaxVariantsArguments,
                 done : {FALSE},
                 ret : {<<>>}]

GenerateCall ==
    /\ call.op = "generate"
    /\ ~call.done
    /\ call' = [call EXCEPT !.done = TRUE,
                            !.ret = GenerateProcessedImages(call.o, call.include_aggressive,
                                                            call.max_variants)]
    /\ UNCHANGED restvars

NextVariants == GenerateCall

SpecVariants == InitVariants /\ [][NextVariants]_vars

(***************************************************************************)
(* _parse_contact_info on texts of one or two lines (lines 199-207 of      *)
(* scan_image onwards).                                                    *)
(***************************************************************************)
\* a name
LineName ==
    <<"J","a","n","e"," ","D","o","e">>

\* a name with a credential
LineNameCred ==
    <<"J","a","n","e"," ","D","o","e",","," ","R","N">>

\* a company in capitals
LineUpper ==
    <<"A","C","M","E"," ","C","O","R","P">>

\* an e-mail address of the shape first.last
LineEmailFirstLast ==
    <<"k","i","r","s","t","e","n",".","b","u","r","t","o","n","@","e","x","a","m","p","l","e",".","o","r","g">>

\* an e-mail address in capitals with a hyphenated domain
LineEmailUpper ==
    <<"J","D","2","@","X","-","Y",".","c","o">>

\* an e-mail address whose domain begins with a dot
LineEmailNoLabel ==
    <<"a","@",".","b",".","c","o">>

\* two capitalized words and a digit
LineNameDigit ==
    <<"J","a","n","e"," ","D","o","e"," ","7">>

\* an e-mail address whose local part holds a digit
LineEmailDigit ==
    <<"j",".","d","o","e","2","@","a","b",".","i","o">>

\* a company
LineCompany ==
    <<"A","c","m","e"," ","H","e","a","l","t","h">>

\* one capitalized word
LineWord ==
    <<"A","n","n">>

ParseLines ==
    {LineName, LineNameCred, LineUpper, LineEmailFirstLast, LineEmailUpper,
     LineEmailNoLabel, LineNameDigit, LineEmailDigit, LineCompany, LineWord}

ParseTexts ==
    {<<>>} \cup ParseLines \cup {a \o <<NL>> \o b : a \in ParseLines, b \in ParseLines}

InitParse ==
    /\ env \in {e \in ScanEnvironments : e.budget < 0}
    /\ easyocr_reader = None
    /\ rapidocr_reader = None
    /\ pc = "parse"
    /\ image_content = JpegMagic \o <<NoisyCard>>
    /\ image = <<MinDimension, MinDimension>>
    /\ simple = IdleSimple
    /\ text \in ParseTexts
    /\ pass = "none"
    /\ processed_images = <<>>
    /\ x = IdleX
    /\ now = 0
    /\ result = <<>>
    /\ hist = [NoHist EXCEPT !.decoded = 1]
    /\ threads = [t \in Threads |-> IdleThread]
    /\ reader_log = NoReaderLog
    /\ call = NoCall

NextParse == ParseContact

SpecParse == InitParse /\ [][NextParse]_vars

(***************************************************************************)
(* The list of images of the primary loop (lines 767-785), built on its    *)
(* own from the variants either pass of scan_image hands over.             *)
(***************************************************************************)
InitImages ==
    /\ env \in {e \in ScanEnvironments : e.budget = 0}
    /\ IdleScan
    /\ \E o \in VariantOutcomes(TRUE, TRUE), aggressive \in BOOLEAN,
          inverted \in [1..2 -> BOOLEAN] :
          call = [op |-> "images",
                  processed_images |->
                      GenerateProcessedImages(o, aggressive, IF aggressive THEN 2 ELSE 4),
                  inverted |-> inverted, done |-> FALSE,
                  inverted_variants |-> <<>>, images_to_try |-> <<>>]

BuildImagesCall ==
    /\ call.op = "images"
    /\ ~call.done
    /\ call' = [call EXCEPT
                   !.done = TRUE,
                   !.inverted_variants =
                       InvertedVariants(call.processed_images, OrigId, call.inverted),
                   !.images_to_try =
                       BuildImagesToTry(call.processed_images, OrigId, call.inverted)]
    /\ UNCHANGED restvars

NextImages == BuildImagesCall

SpecImages == InitImages /\ [][NextImages]_vars

(***************************************************************************)
(* register_text called any number of times, up to a bound, on the locals  *)
(* of a call of _extract_text_with_ocr, and the sort of line 872.          *)
(***************************************************************************)
\* register_text calls in one behaviour
MaxRegistered == 3

\* the texts registered: none, blanks, and lines of a card, two of them of
\* the same length
RegisterTexts == {<<>>, <<" ">>, LineName, LineNameDigit, TxtCons}

\* the base_score arguments: none, one below the floor of line 735, and one
\* above it
RegisterScores == {NoScore, Frac(1, 10), Frac(1, 2)}

InitRegister ==
    /\ env \in {e \in ScanEnvironments : e.budget = 1}
    /\ IdleScan
    /\ call = [op |-> "register", x |-> IdleX, registered |-> 0, sorted |-> FALSE]

\* one call of register_text; variant tells the calls apart
RegisterCall ==
    /\ call.op = "register"
    /\ ~call.sorted
    /\ call.registered < MaxRegistered
    /\ \E txt \in RegisterTexts, base_score \in RegisterScores :
          call' = [call EXCEPT
                     !.registered = @ + 1,
                     !.x = RegisterText(call.x, txt, "psm6_string",
                                        call.registered + 1, base_score).x]
    /\ UNCHANGED restvars

\* lines 872-874, reached when there is a candidate (line 852)
SortCall ==
    /\ call.op = "register"
    /\ ~call.sorted
    /\ call.x.ocr_results # <<>>
    /\ call' = [call EXCEPT
                   !.sorted = TRUE,
                   !.x.ocr_results = SortCandidates(call.x.ocr_results),
                   !.x.best_text = SortCandidates(call.x.ocr_results)[1].text,
                   !.x.best_score = SortCandidates(call.x.ocr_results)[1].score]
    /\ UNCHANGED restvars

NextRegister ==
    \/ RegisterCall
    \/ SortCall

SpecRegister == InitRegister /\ [][NextRegister]_vars

(***************************************************************************)
(* _merge_text on texts of up to two lines, applied once and then again to *)
(* its own result with the same second argument.                           *)
(***************************************************************************)
\* the lines of the texts: a blank one, a name with and without blanks
\* around it, a company, and a line that _line_is_valid turns down
MergeLinePool == {<<>>, LineName, <<" ">> \o LineName \o <<" ">>, LineCompany, TxtCons}

MergeTexts ==
    MergeLinePool \cup {a \o <<NL>> \o b : a \in MergeLinePool, b \in MergeLinePool}

InitMerge ==
    /\ env \in {e \in ScanEnvironments : e.budget = 1}
    /\ IdleScan
    /\ \E base_text \in MergeTexts, new_text \in MergeTexts :
          call = [op |-> "merge", step |-> 0, base_text |-> base_text,
                  new_text |-> new_text, ret |-> <<>>, again |-> <<>>]

MergeCall ==
    /\ call.op = "merge"
    /\ call.step = 0
    /\ call' = [call EXCEPT !.step = 1, !.ret = MergeText(call.base_text, call.new_text)]
    /\ UNCHANGED restvars

\* _merge_text applied to what it returned, with the same new_text
MergeAgain ==
    /\ call.op = "merge"
    /\ call.step = 1
    /\ call' = [call EXCEPT !.step = 2, !.again = MergeText(call.ret, call.new_text)]
    /\ UNCHANGED restvars

NextMerge ==
    \/ MergeCall
    \/ MergeAgain

SpecMerge == InitMerge /\ [][NextMerge]_vars

(***************************************************************************)
(* add_december_2025_leads: the batch import run against a database, then  *)
(* run again.  The database is held in call: stages (names of the pipeline *)
(* stages), leads, tasks (rows <<lead id, title>>), sources (referral      *)
(* sources), the number of lead activities, and the numbers of contacts    *)
(* and deals.  A lead's id is its position in leads.  details stands for   *)
(* the fields and notes the import compares: "batch" when they are the     *)
(* batch's, "old" otherwise.                                               *)
(***************************************************************************)
\* runs of main in one behaviour
MaxRuns == 2

IncomingLeads == <<"I","n","c","o","m","i","n","g"," ","L","e","a","d","s">>
OngoingLeads == <<"O","n","g","o","i","n","g"," ","L","e","a","d","s">>
GailRedfox == <<"G","a","i","l"," ","R","e","d","f","o","x">>
GailRedfoxUpper == <<"G","A","I","L"," ","R","E","D","F","O","X">>
LindaLehman == <<"L","i","n","d","a"," ","L","e","h","m","a","n">>
BarbaraScriven == <<"B","a","r","b","a","r","a"," ","S","c","r","i","v","e","n">>
PaulDeLoux == <<"P","a","u","l"," ","D","e","L","o","u","x">>

\* LEAD_BATCH (lines 41-340): its first and its fourth payload; the other
\* ten have the same shape, with names and task titles of their own
LEAD_BATCH ==
    << [name |-> GailRedfox, stage_name |-> OngoingLeads,
        tasks |-> <<"Confirm assessment date/time (Gail Redfox)">>],
       [name |-> LindaLehman, stage_name |-> IncomingLeads,
        tasks |-> <<"Schedule in-home assessment (Lehman family)",
                    "Line up handyman walkthrough (Lehman family)",
                    "Draft proactive care roadmap (Lehman family)">>] >>

\* REFERRAL_SOURCES (lines 342-954): its first two payloads
REFERRAL_SOURCES ==
    << [name |-> BarbaraScriven, organization |-> <<"P","A","M">>],
       [name |-> PaulDeLoux, organization |-> <<"S","l","o","a","n","'","s"," ","L","a","k","e"," ","R","e","h","a","b","i","l","i","t","a","t","i","o","n">>] >>

\* ensure_stage: the stage of that name, compared in lower case; <<>> when
\* there is none (RuntimeError, line 971)
EnsureStage(d, stage_name) ==
    LET found == {st \in d.stages : ToLower(st) = ToLower(stage_name)}
    IN  IF found = {} THEN <<>> ELSE CHOOSE st \in found : TRUE

\* .first() of a query that has no ORDER BY: the database returns one of
\* the matching rows, the lowest or the highest id here
FirstRow(matches, lowest) == IF lowest THEN MinOf(matches) ELSE MaxOf(matches)

\* an ensure_lead that never looks for an existing lead
EnsureLeadAlwaysNew(d, stage, payload, lowest) ==
    [db |-> [d EXCEPT !.leads = Append(@, [name |-> payload.name, stage |-> stage,
                                            details |-> "batch"]),
                      !.activities = @ + 1],
     lead |-> Len(d.leads) + 1,
     created |-> TRUE]

\* ensure_lead (lines 980-1060): the database after it, the lead's id and
\* the created flag
EnsureLead(d, stage, payload, lowest) ==
    LET matches == {i \in 1..Len(d.leads) :
                       ToLower(d.leads[i].name) = ToLower(payload.name)}
    IN  IF matches # {}
        THEN LET existing == FirstRow(matches, lowest)
                 updated == \/ d.leads[existing].details # "batch"
                            \/ d.leads[existing].stage # stage
             IN  [db |-> [d EXCEPT !.leads[existing].details = "batch",
                                   !.leads[existing].stage = stage,
                                   !.activities = IF updated THEN @ + 1 ELSE @],
                  lead |-> existing,
                  created |-> FALSE]
        ELSE [db |-> [d EXCEPT !.leads = Append(@, [name |-> payload.name,
                                                     stage |-> stage,
                                                     details |-> "batch"]),
                               !.activities = @ + 1],
              lead |-> Len(d.leads) + 1,
              created |-> TRUE]

\* ensure_tasks (lines 1063-1095): a task is added, and flushed, when the
\* lead has none of that title
RECURSIVE EnsureTasks(_, _, _)
EnsureTasks(d, lead, titles) ==
    IF titles = <<>> THEN d
    ELSE IF <<lead, Head(titles)>> \in SeqToSet(d.tasks)
         THEN EnsureTasks(d, lead, Tail(titles))
         ELSE EnsureTasks([d EXCEPT !.tasks = Append(@, <<lead, Head(titles)>>),
                                    !.activities = @ + 1],
                          lead, Tail(titles))

\* ensure_referral_source (lines 1108-1147).  stored are the rows the query
\* sees: the session does not autoflush (database.py line 50) and a new
\* source is added without a flush, so the rows added in this run are not
\* among them
EnsureReferralSource(d, stored, payload) ==
    LET matches == {i \in 1..Len(stored) :
                       /\ ToLower(stored[i].name) = ToLower(payload.name)
                       /\ payload.organization # <<>> =>
                             ToLower(stored[i].organization) =
                                 ToLower(payload.organization)}
    IN  IF matches # {}
        THEN [d EXCEPT !.sources[MinOf(matches)].details = "batch"]
        ELSE [d EXCEPT !.sources = Append(@, [name |-> payload.name,
                                               organization |-> payload.organization,
                                               details |-> "batch"])]

\* the first loop of main (lines 1157-1167)
RECURSIVE ImportLeads(_, _, _)
ImportLeads(d, batch, lowest) ==
    IF batch = <<>> THEN d
    ELSE LET stage == EnsureStage(d, Head(batch).stage_name)
             ensured == EnsureLead(d, stage, Head(batch), lowest)
         IN  ImportLeads(EnsureTasks(ensured.db, ensured.lead, Head(batch).tasks),
                         Tail(batch), lowest)

\* the second loop of main (lines 1169-1176)
RECURSIVE ImportSources(_, _, _)
ImportSources(d, stored, batch) ==
    IF batch = <<>> THEN d
    ELSE ImportSources(EnsureReferralSource(d, stored, Head(batch)), stored,
                       Tail(batch))

\* the databases the import is run against: with or without the stage of
\* ongoing leads, with up to two leads from earlier imports, one of them
\* perhaps with its task
ImportLeadRows ==
    {[name |-> GailRedfoxUpper, stage |-> IncomingLeads, details |-> "old"],
     [name |-> GailRedfox, stage |-> OngoingLeads, details |-> "batch"],
     [name |-> LindaLehman, stage |-> IncomingLeads, details |-> "old"]}

ImportDatabases ==
    [stages : {{IncomingLeads}, {IncomingLeads, OngoingLeads}},
     leads : {<<>>} \cup {<<r>> : r \in ImportLeadRows}
                 \cup {<<r, q>> : r \in ImportLeadRows, q \in ImportLeadRows},
     tasks : {<<>>, << <<1, "Confirm assessment date/time (Gail Redfox)">> >>},
     sources : {<<>>, <<[name |-> BarbaraScriven, organization |-> <<"p","a","m">>,
                         details |-> "old"]>>},
     activities : {0},
     contacts : {0, 2},
     deals : {0, 1}]

InitImport ==
    /\ env \in {e \in ScanEnvironments : e.budget < 0}
    /\ IdleScan
    /\ \E d \in ImportDatabases :
          /\ d.tasks # <<>> => d.leads # <<>>
          /\ call = [op |-> "import", runs |-> 0, failed |-> FALSE, db |-> d]

\* main (lines 1150-1192): one run in one session.  A stage that is not
\* found raises, and the session is rolled back; otherwise everything is
\* committed
Main ==
    /\ call.op = "import"
    /\ call.runs < MaxRuns
    /\ \E lowest \in BOOLEAN :
          LET raised == \E i \in 1..Len(LEAD_BATCH) :
                           EnsureStage(call.db, LEAD_BATCH[i].stage_name) = <<>>
              d == ImportSources(ImportLeads(call.db, LEAD_BATCH, lowest),
                                 call.db.sources, REFERRAL_SOURCES)
          IN  call' = [call EXCEPT !.runs = @ + 1,
                                   !.failed = raised,
                                   !.db = IF raised THEN @ ELSE d]
    /\ UNCHANGED restvars

NextImport == Main

SpecImport == InitImport /\ [][NextImport]_vars

(***************************************************************************)
(* validate_contact on records of every kind, applied once and then to its *)
(* own result.                                                             *)
(***************************************************************************)
\* a value Python takes for true: neither None nor ''
Truthy(v) == v # None /\ v # <<>>

\* a validate_contact that trims the names and leaves their case alone
ValidateWithoutTitle(contact) ==
    [contact EXCEPT
        !.email = IF Truthy(@) THEN Strip(ToLower(@)) ELSE @,
        !.first_name = IF Truthy(@) THEN Strip(@) ELSE @,
        !.last_name = IF Truthy(@) THEN Strip(@) ELSE @,
        !.name = IF Truthy(@) THEN Strip(@) ELSE @,
        !.company = IF Truthy(@) THEN Strip(@) ELSE @,
        !.title = IF Truthy(@) THEN @ ELSE None,
        !.phone = IF Truthy(@) THEN @ ELSE None,
        !.website = IF Truthy(@) THEN @ ELSE None,
        !.address = IF Truthy(@) THEN @ ELSE None]

\* validate_contact (lines 1440-1467): the record it returns
ValidateContact(contact) ==
    [contact EXCEPT
        !.email = IF Truthy(@) THEN Strip(ToLower(@)) ELSE @,
        !.first_name = IF Truthy(@) THEN Title(Strip(@)) ELSE @,
        !.last_name = IF Truthy(@) THEN Title(Strip(@)) ELSE @,
        !.name = IF Truthy(@) THEN Title(Strip(@)) ELSE @,
        !.company = IF Truthy(@) THEN Strip(@) ELSE @,
        !.title = IF Truthy(@) THEN @ ELSE None,
        !.phone = IF Truthy(@) THEN @ ELSE None,
        !.website = IF Truthy(@) THEN @ ELSE None,
        !.address = IF Truthy(@) THEN @ ELSE None]

\* the records validate_contact is given
GivenContacts ==
    [first_name : {None, <<" ","j","a","n","e"," ">>},
     last_name : {None, <<"D","O","E">>},
     email : {None, <<>>, <<" ">>, <<" ","J","a","n","e","@","A","c","m","e",".","C","O","M"," ">>},
     name : {None, <<>>, <<"j","a","n","e"," ","D","O","E"," ">>},
     company : {None, <<" ","A","c","m","e"," ">>},
     title : {None, <<>>, <<"M","a","n","a","g","e","r">>},
     phone : {None, <<>>},
     website : {None, <<"x",".","c","o">>},
     address : {None, <<>>},
     notes : {<<>>, <<" ","n"," ">>}]

\* given is the record as it was handed over, contact the caller's record,
\* ret what the first call returned and again what the second did
InitValidate ==
    /\ env \in {e \in ScanEnvironments : e.budget < 0}
    /\ IdleScan
    /\ \E c \in GivenContacts :
          call = [op |-> "validate", step |-> 0, given |-> c, contact |-> c,
                  ret |-> c, again |-> c]

\* validated = contact.copy() (line 1442): the caller's record is left as
\* it is, and the cleaned copy is returned
ValidateCall ==
    /\ call.op = "validate"
    /\ call.step = 0
    /\ call' = [call EXCEPT !.step = 1, !.ret = ValidateContact(call.contact)]
    /\ UNCHANGED restvars

\* validate_contact applied to what it returned
ValidateAgain ==
    /\ call.op = "validate"
    /\ call.step = 1
    /\ call' = [call EXCEPT !.step = 2, !.again = ValidateContact(call.ret)]
    /\ UNCHANGED restvars

NextValidate ==
    \/ ValidateCall
    \/ ValidateAgain

SpecValidate == InitValidate /\ [][NextValidate]_vars

(***************************************************************************)
(* Properties of the orchestrator and of scan_image.                       *)
(***************************************************************************)
\* C1: once the wall-clock budget of a call of _extract_text_with_ocr is
\* used up, no engine call is started in any stage of that call, and with a
\* budget of 0 the call starts no engine call at all.
\* Checked under Spec; the fall-back chain of lines 860-870 refutes it.
C1_NoCallOverBudget ==
    /\ hist.late = {}
    /\ (MaxTimeBudget(env.budget) = 0 => \A st \in Stages : hist.calls[st] = 0)

\* C2: a fast-path text that passes the thresholds of line 155 ends the scan:
\* no call of _extract_text_with_ocr follows, and raw_text is that text.
\* Checked under Spec; the length test of line 184 refutes it.
C2_FastPathTextIsFinal ==
    hist.fast_accepted =>
        /\ hist.heavy_runs = 0
        /\ (pc = "done" /\ result[1].success => result[1].raw_text = hist.fast_text)

\* a candidate of a Tesseract attempt that asks for the early exit
EarlyExitCandidate(xx) ==
    \E i \in 1..Len(xx.ocr_results) :
        /\ xx.ocr_results[i].source # "rapidocr"
        /\ xx.ocr_results[i].score >= Frac(9, 10)
        /\ HasEmail(xx.ocr_results[i].text)

\* image_to_string and image_to_data calls of the loops in the current call
TesseractCalls(h) ==
    h.calls["primary_string"] + h.calls["primary_data"] + h.calls["secondary"]

\* C3: once a Tesseract attempt of the loops has registered a candidate with
\* score >= 0.9 and an e-mail address, no step of the call makes another
\* image_to_string or image_to_data call with a primary or secondary config.
\* Checked under SpecExtract.
C3_EarlyExitStopsTesseract ==
    [][EarlyExitCandidate(x) => TesseractCalls(hist') = TesseractCalls(hist)]_vars

\* the early exit was taken on the first of five images
C3_Witness ==
    /\ pc = "merge"
    /\ EarlyExitCandidate(x)
    /\ Len(x.images_to_try) = MaxVariantsToTry
    /\ hist.calls["primary_string"] = 1

\* more turns than a loop of _extract_text_with_ocr can take: an
\* image_to_string and an image_to_data call for every image and config
MaxLoopTurn == 2 * MaxVariantsToTry * Len(PrimaryConfigs) + 1

\* the engine calls one call of _extract_text_with_ocr may make
CallsBounded ==
    /\ Len(x.images_to_try) <= MaxVariantsToTry
    /\ hist.calls["primary_string"] <= MaxVariantsToTry * Len(PrimaryConfigs)
    /\ hist.calls["primary_data"] <= MaxVariantsToTry * Len(PrimaryConfigs)
    /\ hist.calls["secondary"] <= 2 * Len(SecondaryConfigs)
    /\ \A st \in {"rapid_first", "fallback_easy", "fallback_rapid",
                  "fallback_tesseract", "post_easy", "post_rapid"} :
            hist.calls[st] <= 1

\* how far a call of _extract_text_with_ocr has got: the statement it is at
\* and, inside a loop, the turn of the loop
PcRank ==
    CASE pc = "extract" -> 0
      [] pc = "rapid_first" -> 1
      [] pc = "build_images" -> 2
      [] pc \in {"primary_string", "primary_data"} -> 3
      [] pc = "secondary" -> 4
      [] pc \in {"fallback_easy", "merge"} -> 5
      [] pc \in {"fallback_rapid", "post_easy"} -> 6
      [] pc \in {"fallback_tesseract", "post_rapid"} -> 7
      [] pc = "finish" -> 8
      [] OTHER -> 9

LoopTurn ==
    IF pc \notin {"primary_string", "primary_data", "secondary"} THEN 0
    ELSE IF x.stop_requested THEN MaxLoopTurn
    ELSE IF pc = "secondary" THEN x.image_index
    ELSE 2 * ((x.image_index - 1) * Len(PrimaryConfigs) + x.config_index - 1)
            + (IF pc = "primary_data" THEN 1 ELSE 0)

Position == PcRank * (MaxLoopTurn + 1) + LoopTurn

\* the statements of the call other than the two that only assign (Merge
\* and Finish, whose one guard is the statement reached)
NextGuarded ==
    \/ ExtractStart
    \/ RapidFirst
    \/ BuildImages
    \/ PrimaryString
    \/ PrimaryData
    \/ Secondary
    \/ FallbackEasy
    \/ FallbackRapid
    \/ FallbackTesseract
    \/ PostEasy
    \/ PostRapid

\* C4: every call of _extract_text_with_ocr makes at most 5 x 2 primary
\* image_to_string calls (and as many image_to_data calls), at most 2
\* secondary calls and at most one call of each fall-back; whatever the
\* engines answer, every step takes the call further (so it ends within a
\* fixed number of steps), no step before the return statement is stuck, and
\* what is returned is a string (never None).
\* Checked under SpecExtract.
C4_BoundedCallsAndReturn ==
    /\ [](CallsBounded)
    /\ [][Position < Position' /\ Position' <= 9 * (MaxLoopTurn + 1)]_vars
    /\ [](pc \in {"merge", "finish", "return"} \/ ENABLED NextGuarded)
    /\ [](pc = "return" => x.ret # None)

\* all ten primary attempts and both secondary attempts were made
C4_Witness ==
    /\ pc = "return"
    /\ hist.calls["primary_string"] = MaxVariantsToTry * Len(PrimaryConfigs)
    /\ hist.calls["secondary"] = 2

\* C5: scan_image reports success=False only when the bytes cannot be
\* decoded; a failure of any later step leaves success=True.
\* Checked under Spec; image.resize raising in _ensure_minimum_size refutes it.
C5_FailureOnlyWhenUndecodable ==
    pc = "done" /\ ~result[1].success => image = <<>>

\* C6: bytes that begin with one of the two HEIC prefixes of line 67 are
\* refused before Image.open is tried, with the message asking for JPEG or PNG.
\* Checked under Spec; a file beginning 00 00 00 20 "ftyp" refutes it.
C6_HeicRejectedBeforeDecoding ==
    StartsWith(image_content, HeicMagic) \/ StartsWith(image_content, FtypMagic) =>
        /\ hist.decoded = 0
        /\ pc = "done"
        /\ result = <<Failure(HeicMessage)>>

\* C7: a scan of a decodable image in which no engine call returned any text
\* ends with success=True, an empty raw_text and a contact whose fields are
\* all None except notes, which is empty.
\* Checked under Spec; the failure of C5 refutes it.
C7_NoTextGivesEmptyContact ==
    pc = "done" /\ image # <<>> /\ hist.no_text =>
        /\ result[1].success
        /\ result[1].raw_text = <<>>
        /\ result[1].contact[1].notes = <<>>
        /\ \A f \in DOMAIN result[1].contact[1] \ {"notes"} :
                result[1].contact[1][f] = None

(***************************************************************************)
(* Properties of the reader getters.                                       *)
(***************************************************************************)
\* C8: after the construction of a reader has failed, no later call of its
\* getter runs the constructor again, and every such call returns None.
\* Checked under SpecReaders; the None stored by the except clause, which
\* also means "not built yet", refutes it.
C8_FailureIsRemembered ==
    /\ reader_log.retried = {}
    /\ \A t \in Threads :
            threads[t].after_failure /\ threads[t].pc = "idle" => threads[t].ret = None

\* C9: when calls of a getter overlap, a call whose constructor succeeded
\* returns a reader, and no call sets a stored reader back to None.
\* Checked under SpecReaders; the except clause of an overlapping call
\* refutes it.
C9_RaceOnlyRepeatsWork ==
    /\ reader_log.dropped = {}
    /\ reader_log.lost = {}

(***************************************************************************)
(* The order of the stages.                                                *)
(***************************************************************************)
\* C10 as stated: within one scan the stage that calls an engine never has a
\* lower rank than a stage that has called one before.
\* Checked under Spec; the aggressive pass of lines 184-194 refutes it.
C10_StagesNeverGoBack ==
    [][pc \notin {"idle", "done"} => hist.stage <= hist'.stage]_vars

\* C10, amended: within one call of _extract_text_with_ocr the stages that
\* call an engine follow one another in the order primary, secondary,
\* fall-backs; a scan makes at most two such calls, and the fast path never
\* runs after the first of them has begun.
\* Checked under Spec.
C10_StagesInOrderWithinPass ==
    /\ [][pc \notin {"idle", "done", "extract"} => hist.pass_stage <= hist'.pass_stage]_vars
    /\ [](hist.heavy_runs <= 2)
    /\ [](pc \in {"simple_prepare", "simple", "simple_decide"} => hist.heavy_runs = 0)

\* the aggressive pass has gone through its loops and its fall-backs after
\* the normal pass had
C10_Witness ==
    /\ pass = "aggressive"
    /\ hist.heavy_runs = 2
    /\ hist.calls["primary_string"] > 0
    /\ hist.calls["secondary"] > 0
    /\ hist.pass_stage = StageRank("fallback_tesseract")

\* the calls of the given fall-back stage made so far in the current call
FallbackCalled(h, stage) == h.calls[stage] > 0

\* a text was handed back by the step just taken
Yielded(ret) == ret # None /\ ret # <<>>

\* C11: with zero candidates the fall-backs are called only in the order
\* EasyOCR, RapidOCR, plain Tesseract, each at most once; the first one that
\* yields a non-empty text ends the call with that text and no later one is
\* called; the Tesseract call always ends the call, with a string (empty if
\* it raised or read nothing).
\* Checked under SpecExtract.
C11_FallbacksInOrder ==
    /\ [][hist'.calls["fallback_easy"] > hist.calls["fallback_easy"] =>
            /\ pc = "fallback_easy" /\ x.ocr_results = <<>>
            /\ ~FallbackCalled(hist, "fallback_easy")
            /\ ~FallbackCalled(hist, "fallback_rapid")
            /\ ~FallbackCalled(hist, "fallback_tesseract")]_vars
    /\ [][hist'.calls["fallback_rapid"] > hist.calls["fallback_rapid"] =>
            /\ pc = "fallback_rapid" /\ x.ocr_results = <<>>
            /\ ~FallbackCalled(hist, "fallback_rapid")
            /\ ~FallbackCalled(hist, "fallback_tesseract")]_vars
    /\ [][hist'.calls["fallback_tesseract"] > hist.calls["fallback_tesseract"] =>
            /\ pc = "fallback_tesseract" /\ x.ocr_results = <<>>
            /\ ~FallbackCalled(hist, "fallback_tesseract")]_vars
    /\ [][pc = "fallback_easy" =>
            IF Yielded(x'.ret) THEN pc' = "return" ELSE pc' = "fallback_rapid"]_vars
    /\ [][pc = "fallback_rapid" =>
            IF Yielded(x'.ret) THEN pc' = "return" ELSE pc' = "fallback_tesseract"]_vars
    /\ [][pc = "fallback_tesseract" => pc' = "return" /\ x'.ret # None]_vars
    /\ [](pc = "return" /\ x.ocr_results = <<>> /\ ~Yielded(x.ret) => x.ret = <<>>)

\* EasyOCR read nothing, RapidOCR read a text, and Tesseract was not called
C11_Witness ==
    /\ pc = "return"
    /\ x.ocr_results = <<>>
    /\ hist.calls["fallback_easy"] = 1
    /\ hist.calls["fallback_rapid"] = 1
    /\ hist.calls["fallback_tesseract"] = 0
    /\ Yielded(x.ret)

\* some registered candidate holds an e-mail address
SomeCandidateHasEmail(candidates) ==
    \E i \in 1..Len(candidates) : HasEmail(candidates[i].text)

\* C12: when Merge has run (lines 872-887) and some registered candidate's
\* text matches the e-mail pattern, the merged text matches it too.
\* Checked under SpecExtract; _merge_text drops an e-mail line that fails
\* _line_is_valid (line 1051), which refutes it.
C12_EmailLineRecovered ==
    pc = "post_easy" /\ SomeCandidateHasEmail(x.ocr_results) => HasEmail(x.best_text)

\* the lines of new_text that are not yet present and pass _line_is_valid,
\* each once, in their order
NewValidLines(base_lines, new_text) ==
    LET lines == [i \in 1..Len(SplitOn(new_text, NL)) |-> Strip(SplitOn(new_text, NL)[i])]
        keep == {i \in 1..Len(lines) :
                    /\ lines[i] # <<>>
                    /\ lines[i] \notin SeqToSet(base_lines)
                    /\ LineIsValid(lines[i])
                    /\ \A j \in 1..(i - 1) : lines[j] # lines[i]}
        kept == SelectSeq([i \in 1..Len(lines) |-> i], LAMBDA i : i \in keep)
    IN  [k \in 1..Len(kept) |-> lines[kept[k]]]

\* base_text with exactly those lines appended
WithNewValidLines(base_text, new_text) ==
    JoinWith(StrippedLines(base_text) \o NewValidLines(StrippedLines(base_text), new_text),
             NL)

\* the best text after every candidate within 0.18 of the best score has
\* been merged into it, and no other
RECURSIVE WithinMargin(_, _, _)
WithinMargin(best_text, best_score, candidates) ==
    IF candidates = <<>> THEN best_text
    ELSE IF candidates[1].score >= best_score - Frac(18, 100)
    THEN WithinMargin(WithNewValidLines(best_text, candidates[1].text), best_score,
                      Tail(candidates))
    ELSE WithinMargin(best_text, best_score, Tail(candidates))

\* sorted by (score, length), descending
SortedDescending(sorted) ==
    \A i \in 1..Len(sorted), j \in 1..Len(sorted) :
        i < j => ~KeyGreater(sorted[j], sorted[i])

\* C13: the candidates are sorted by (score, length) descending, the best is
\* the base text, and the text of lines 876-879 is the base text with every
\* candidate within 0.18 of the best score merged in and no other, a merge
\* appending exactly the candidate's lines that are new and valid.
\* Checked under SpecExtract; the floor of 0.25 in line 877 refutes it.
C13_CloseCandidatesMerged ==
    pc = "merge" =>
        /\ SortedDescending(SortCandidates(x.ocr_results))
        /\ MergeClose(SortCandidates(x.ocr_results)[1].text,
                      SortCandidates(x.ocr_results)[1].score,
                      Tail(SortCandidates(x.ocr_results)))
             = WithinMargin(SortCandidates(x.ocr_results)[1].text,
                            SortCandidates(x.ocr_results)[1].score,
                            Tail(SortCandidates(x.ocr_results)))

\* the text of the first RapidOCR pass as line 925 leaves it
RapidPrimaryText(xx) ==
    IF xx.rapid_primary_text = None THEN <<>> ELSE PostProcessOr(xx.rapid_primary_text)

\* C14: the call returns something else than the pipeline's text only if the
\* text of the first RapidOCR pass scores >= 0.45 and the pipeline's score is
\* < 0.55 or its text is gibberish; with a RapidOCR text scoring below 0.45
\* the pipeline's text is returned.
\* Checked under SpecExtract; the second test of line 929 compares the
\* RapidOCR score with 0.8 times the pipeline's, which refutes it.
C14_RapidTextPreferredOnlyIfGood ==
    [][pc = "finish" /\ x'.ret # x.best_text =>
          /\ ScoreOcrText(RapidPrimaryText(x)) >= Frac(45, 100)
          /\ (x.best_score < Frac(55, 100) \/ TextIsGibberish(x.best_text))]_vars

\* C15: every candidate in ocr_results has a score from 0.2 to 2.2, the
\* scores taken from word confidences included, and _score_ocr_text of a
\* candidate's text lies between 0 and 2.2.
\* Checked under SpecExtract.
C15_CandidateScoresInRange ==
    \A i \in 1..Len(x.ocr_results) :
        /\ x.ocr_results[i].score >= Frac(2, 10)
        /\ x.ocr_results[i].score <= Frac(22, 10)
        /\ ScoreOcrText(x.ocr_results[i].text) >= 0
        /\ ScoreOcrText(x.ocr_results[i].text) <= Frac(22, 10)

\* a candidate scored by its word confidences stands beside one scored by
\* its text, after an attempt below 0.2 was made
C15_Witness ==
    /\ pc = "merge"
    /\ Len(x.ocr_results) >= 2
    /\ \E i \in 1..Len(x.ocr_results) :
          x.ocr_results[i].score > ScoreOcrText(x.ocr_results[i].text)
    /\ \E i \in 1..Len(x.ocr_results) :
          x.ocr_results[i].score = ScoreOcrText(x.ocr_results[i].text)

\* positions of a list of images that hold the first image of their
\* fingerprint
FirstOccurrences(images) ==
    {i \in 1..Len(images) :
        images[i] = Unhashable \/ \A j \in 1..(i - 1) : images[j] # images[i]}

\* the images at those positions, in their order
AtFirstOccurrences(images) ==
    SelectSeq([i \in 1..Len(images) |-> IF i \in FirstOccurrences(images)
                                         THEN images[i] ELSE Failed],
              LAMBDA img : img # Failed)

\* C16: the list _generate_processed_images returns holds no two images with
\* the same content hash, and it is made of the first occurrences of the
\* produced variants in their order (cut to max_variants).
\* Checked under SpecVariants.
C16_NoTwoEqualHashes ==
    call.op = "generate" /\ call.done =>
        /\ \A i \in 1..Len(call.ret), j \in 1..Len(call.ret) :
              i < j /\ call.ret[i] # Unhashable => call.ret[i] # call.ret[j]
        /\ call.ret = FirstVariants(
                          AtFirstOccurrences(ProducedVariants(call.o,
                                                              call.include_aggressive)),
                          call.max_variants)

\* two steps produced the same content and the list was not cut
C16_Witness ==
    /\ call.op = "generate" /\ call.done
    /\ call.max_variants = 0
    /\ call.o.autocontrast = GrayId
    /\ call.o.preprocess = OrigId
    /\ call.include_aggressive /\ call.o.aggressive = OrigId
    /\ Len(call.ret) = 5

\* the steps of _generate_processed_images that are carried out
StepsTaken(o, include_aggressive) ==
    {k \in DOMAIN o : k = "aggressive" => include_aggressive}

\* C17: _generate_processed_images returns at least one variant, and every
\* step that does not fail has its variant produced, whichever other steps
\* fail.
\* Checked under SpecVariants; with every step failing the list is empty
\* (lines 393-399 catch the failure of the grayscale conversion too), and a
\* failure in the try block of lines 393-397 skips the steps after it.
C17_AtLeastOneVariant ==
    call.op = "generate" /\ call.done =>
        /\ Len(call.ret) >= 1
        /\ \A k \in StepsTaken(call.o, call.include_aggressive) :
              call.o[k] # Failed =>
                  call.o[k] \in SeqToSet(ProducedVariants(call.o,
                                                          call.include_aggressive))

\* the contact of a finished scan
Contact == result[1].contact[1]

\* the first label of the domain of an e-mail address
FirstDomainLabel(email) == SplitOn(SplitOn(email, "@")[2], ".")[1]

\* C18: when the text holds an e-mail address, the contact's email is the
\* first match in lower case and stripped, and its company is the first
\* label of the domain with '-' and '_' replaced by spaces, title-cased;
\* without an e-mail address the company is the one found in the text.
\* Checked under SpecParse; an address whose domain begins with a dot has
\* an empty first label, and the company is then looked for in the text
\* (lines 1183 and 1201), which refutes it.
C18_CompanyFromEmailDomain ==
    pc = "done" =>
        IF HasEmail(text)
        THEN /\ Contact.email = Strip(ToLower(EmailGroup(text)))
             /\ Contact.company =
                   Title(ReplaceChar(ReplaceChar(FirstDomainLabel(Contact.email),
                                                 "-", " "), "_", " "))
        ELSE /\ Contact.email = None
             /\ Contact.company = ExtractCompany(text)

\* strategy 1: the first of the first five lines that is name-like once its
\* credentials and titles are removed
NameByLine(txt) ==
    LET lines == FirstLines(StrippedLines(txt), 5)
        like == {i \in 1..Len(lines) : NameLine(CleanNameLine(lines[i]))}
    IN  IF like = {} THEN None ELSE CleanNameLine(lines[MinOf(like)])

\* strategy 2: the halves of a first.last local part, title-cased
NameByEmail(txt) ==
    IF NameFromEmail(txt) # <<>> /\ LooksLikeName(NameFromEmail(txt))
    THEN NameFromEmail(txt) ELSE None

\* strategy 3: two to four capitalized words
NameByWords(txt) == NameFromWords(NameCandidates(txt))

\* C19: the name is that of strategy 1 if it finds one; else that of
\* strategy 2 if it finds one; else that of strategy 3, which may be None.
\* kirsten.burton@example.org alone gives Kirsten Burton.
\* Checked under SpecParse.
C19_NameStrategiesInOrder ==
    pc = "done" =>
        /\ Contact.name =
              IF NameByLine(text) # None THEN NameByLine(text)
              ELSE IF NameByEmail(text) # None THEN NameByEmail(text)
              ELSE NameByWords(text)
        /\ (text = LineEmailFirstLast =>
               Contact.name = <<"K","i","r","s","t","e","n"," ","B","u","r","t","o","n">>)

\* the name came from the e-mail address although the text holds two
\* capitalized words
C19_Witness ==
    /\ pc = "done"
    /\ text = LineNameDigit \o <<NL>> \o LineEmailFirstLast
    /\ Contact.name = <<"K","i","r","s","t","e","n"," ","B","u","r","t","o","n">>
    /\ NameByWords(text) = LineName

\* C20: validate_contact leaves the record it is given as it was; in the
\* record it returns the email is lower-cased and trimmed, first_name,
\* last_name and name are trimmed and title-cased, company is trimmed, each
\* of title, phone, website and address is None or a non-empty value, and
\* notes is as given; validating the returned record again changes nothing.
\* Checked under SpecValidate.
C20_ValidateCleansOnce ==
    call.op = "validate" /\ call.step >= 1 =>
        /\ call.contact = call.given
        /\ call.ret.email =
              IF Truthy(call.given.email) THEN Strip(ToLower(call.given.email))
              ELSE call.given.email
        /\ \A f \in {"first_name", "last_name", "name"} :
              call.ret[f] = IF Truthy(call.given[f]) THEN Title(Strip(call.given[f]))
                            ELSE call.given[f]
        /\ call.ret.company =
              IF Truthy(call.given.company) THEN Strip(call.given.company)
              ELSE call.given.company
        /\ \A f \in {"title", "phone", "website", "address"} :
              /\ call.ret[f] = None \/ call.ret[f] # <<>>
              /\ Truthy(call.given[f]) => call.ret[f] = call.given[f]
        /\ call.ret.notes = call.given.notes
        /\ (call.step = 2 => call.again = call.ret)

\* a record with an e-mail address in capitals, names to clean and an empty
\* title, validated twice
C20_Witness ==
    /\ call.op = "validate" /\ call.step = 2
    /\ call.given.email = <<" ","J","a","n","e","@","A","c","m","e",".","C","O","M"," ">>
    /\ call.ret.email = <<"j","a","n","e","@","a","c","m","e",".","c","o","m">>
    /\ call.given.name = <<"j","a","n","e"," ","D","O","E"," ">>
    /\ call.ret.name = <<"J","a","n","e"," ","D","o","e">>
    /\ call.given.title = <<>>
    /\ call.ret.title = None
    /\ call.again = call.ret

\* the leads of the database whose name is that name, case aside
LeadsNamed(d, name) == {i \in 1..Len(d.leads) : ToLower(d.leads[i].name) = ToLower(name)}

\* the task rows a step has added
TasksAdded == {i \in 1..Len(call'.db.tasks) : i > Len(call.db.tasks)}

EngineCallStarted == \E st \in Stages : hist'.calls[st] > hist.calls[st]

\* C22: the time budget is that of the scan: counted from the start of the
\* scan's first heavy pass, no engine call is started once the budget has
\* gone by, in the aggressive pass as in the first.  Stated for the engine
\* calls of the aggressive pass, the fall-backs of lines 860-870 aside, which
\* no budget guards.  Checked under Spec; the clock of line 705 starts again
\* in each call.
C22_SecondPassWithinScanBudget ==
    [][/\ EngineCallStarted
       /\ pass = "aggressive"
       /\ hist'.calls["fallback_rapid"] = hist.calls["fallback_rapid"]
       /\ hist'.calls["fallback_tesseract"] = hist.calls["fallback_tesseract"]
       => hist.spent + now < x.max_time_budget]_vars

\* C23: called as the aggressive pass calls it (include_aggressive, at most
\* 2 variants), _generate_processed_images returns at most 2 variants, and
\* the aggressively preprocessed one is among them when that step produced
\* it.  Checked under SpecVariants; the truncation of lines 425-426 keeps the
\* first two variants and the aggressive one is appended last.
C23_AggressiveVariantKept ==
    /\ call.op = "generate" /\ call.done
    /\ call.include_aggressive /\ call.max_variants = 2
    /\ call.o.aggressive = AggressiveId
    => /\ Len(call.ret) <= 2
       /\ AggressiveId \in SeqToSet(call.ret)

\* C24: the images the primary loop goes through are at most 5, no two of
\* them with the same content; the untouched normalized image is among
\* them, and so is every inverted copy made of the first two images; this
\* for 0 to 4 processed variants.
\* Checked under SpecImages; the cut to 5 images of lines 783-785 drops the
\* inverted copies, which come last.
C24_LoopImagesComplete ==
    call.op = "images" /\ call.done /\ Len(call.processed_images) <= 4 =>
        /\ Len(call.images_to_try) <= MaxVariantsToTry
        /\ \A i, j \in 1..Len(call.images_to_try) :
              call.images_to_try[i] = call.images_to_try[j] => i = j
        /\ OrigId \in SeqToSet(call.images_to_try)
        /\ \A i \in 1..Len(call.inverted_variants) :
              call.inverted_variants[i] \in SeqToSet(call.images_to_try)

\* a step that makes an image_to_string call with the sparse configuration
SecondaryCallStarted == hist'.calls["secondary"] > hist.calls["secondary"]

\* no candidate yet, or the best one scores below the threshold
BestBelow(xx, threshold) ==
    xx.best_entry = NoEntry \/ EntryScore(xx.best_entry) < threshold

\* C25 as it is stated: whenever a secondary (psm 11) attempt is made, no
\* early exit was asked for, the budget is not used up and the best
\* candidate so far scores < 0.6 or there is none; at most two attempts are
\* made in a call, on the first two images.  Checked under SpecExtract; the
\* score is tested once, at line 834, and not before the second attempt.
C25_SecondaryOnlyWhileWeak ==
    [][SecondaryCallStarted =>
          /\ ~x.stop_requested
          /\ WithinBudget
          /\ BestBelow(x, Frac(6, 10))
          /\ hist'.calls["secondary"] <= 2
          /\ x.image_index <= 2
    ]_vars

\* C25, amended: the secondary loop is entered only from the end of the
\* primary loop, with no early exit asked for, the budget not used up and the
\* best candidate scoring < 0.6 or missing at that moment; each of its
\* attempts is made with no early exit asked for and the budget not used up;
\* at most two attempts are made in a call, on the first two images.
\* Checked under SpecExtract.
C25_SecondaryEnteredWhileWeak ==
    [][/\ pc # "secondary" /\ pc' = "secondary" =>
             /\ pc = "primary_string"
             /\ ~x.stop_requested
             /\ WithinBudget
             /\ BestBelow(x, Frac(6, 10))
       /\ SecondaryCallStarted =>
             /\ pc = "secondary"
             /\ ~x.stop_requested
             /\ WithinBudget
             /\ hist'.calls["secondary"] <= 2
             /\ x.image_index <= 2
             /\ x.image_index <= Len(x.images_to_try)
    ]_vars

\* both secondary attempts were made, the second with a best candidate of
\* 0.6 or more that the first had registered
C25_Witness ==
    /\ pc = "secondary"
    /\ hist.calls["secondary"] = 2
    /\ \E i \in 1..Len(x.ocr_results) :
          /\ x.ocr_results[i].source = SecondaryConfigs[1] \o "_string"
          /\ x.ocr_results[i].variant = 0
          /\ x.ocr_results[i].score >= Frac(6, 10)

\* what the fall-backs after the merge do with a text by the words of C26:
\* it replaces the current text when it scores higher, and is merged into
\* it when its score is within 0.1 of the current best
AdoptedWithinTenth(xx, new_text) ==
    IF new_text = <<>> THEN xx
    ELSE IF ScoreOcrText(new_text) > xx.best_score
    THEN [xx EXCEPT !.best_text = new_text, !.best_score = ScoreOcrText(new_text)]
    ELSE IF ScoreOcrText(new_text) >= xx.best_score - Frac(1, 10)
    THEN Rescored(xx, PostProcessOr(MergeText(xx.best_text, new_text)))
    ELSE xx

\* C26: after the merge the EasyOCR fall-back is asked only if the best
\* score is < 0.5 and budget remains; its text replaces the current text
\* when it scores higher and is merged into it when its score is within 0.1
\* of the current best; the RapidOCR fall-back follows in the same way
\* under the same guard.  Checked under SpecExtract; the floors of lines 899
\* and 914 keep low-scoring texts out, and line 914 has a margin of 0.12.
C26_FallbacksAfterMerge ==
    [][/\ pc = "post_easy" =>
             /\ hist'.calls["post_easy"] > hist.calls["post_easy"] =>
                   WithinBudget /\ x.best_score < Frac(5, 10)
             /\ x' = IF WithinBudget /\ x.best_score < Frac(5, 10)
                     THEN AdoptedWithinTenth(x, PostProcessOr(hist'.heard))
                     ELSE x
       /\ pc = "post_rapid" =>
             /\ hist'.calls["post_rapid"] > hist.calls["post_rapid"] =>
                   WithinBudget /\ x.best_score < Frac(5, 10)
             /\ x' = IF env.rapid /\ WithinBudget /\ x.best_score < Frac(5, 10)
                     THEN AdoptedWithinTenth(x, hist'.heard)
                     ELSE x
    ]_vars

\* C27: when the first RapidOCR pass of a call hands back a text that scores
\* >= 0.55 and holds an e-mail address, the call returns that text at once:
\* no Tesseract call and no other engine call has been made in it, and none
\* is made before it returns.  Checked under SpecExtract.
C27_GoodRapidTextReturnedAtOnce ==
    [][/\ /\ pc = "rapid_first"
          /\ hist'.heard # <<>>
          /\ ScoreOcrText(hist'.heard) >= Frac(55, 100)
          /\ HasEmail(hist'.heard)
          => /\ pc' = "return"
             /\ x'.ret = hist'.heard
             /\ hist'.calls["rapid_first"] = 1
             /\ \A st \in Stages \ {"rapid_first"} : hist'.calls[st] = 0
       /\ pc = "return" => \A st \in Stages : hist'.calls[st] = hist.calls[st]
    ]_vars

\* the first RapidOCR pass was the only engine call, and its text, with an
\* e-mail address, is what the call returns
C27_Witness ==
    /\ pc = "return"
    /\ hist.calls["rapid_first"] = 1
    /\ \A st \in Stages \ {"rapid_first"} : hist.calls[st] = 0
    /\ x.ret = hist.heard
    /\ HasEmail(x.ret)
    /\ x.rapid_primary_score >= Frac(55, 100)

\* C28: the aggressive pass of scan_image loses nothing: when the text the
\* fast path or the first heavy pass had found is not empty, the text after
\* the aggressive pass, which becomes raw_text, is not empty either, and when
\* the earlier text held an e-mail address the contact made of the later
\* text has an email.  Checked under Spec; line 194 puts whatever the
\* aggressive pass returns in the place of the earlier text.
C28_AggressivePassLosesNothing ==
    [][pc = "return" /\ pass = "aggressive" =>
          /\ text # <<>> => text' # <<>>
          /\ HasEmail(text) => ParseContactInfo(text').email # None
    ]_vars

\* the first of the entries that none of them beats by (score, length)
EarliestBest(entries) ==
    entries[MinOf({i \in 1..Len(entries) :
                      \A j \in 1..Len(entries) : ~KeyGreater(entries[j], entries[i])})]

\* C29: after any sequence of register_text calls the texts of ocr_results
\* are pairwise different and not empty; best_entry is missing exactly when
\* there is no candidate, and otherwise it is the candidate that is greatest
\* by (score, length of text), the one registered first among equals; after
\* the sort of line 872 it is ocr_results[0], so their scores are equal.
\* Checked under SpecRegister.
C29_BestEntryIsGreatest ==
    call.op = "register" =>
        /\ \A i, j \in 1..Len(call.x.ocr_results) :
              call.x.ocr_results[i].text = call.x.ocr_results[j].text => i = j
        /\ \A i \in 1..Len(call.x.ocr_results) : call.x.ocr_results[i].text # <<>>
        /\ call.x.best_entry = NoEntry <=> call.x.ocr_results = <<>>
        /\ call.x.ocr_results # <<>> =>
              /\ call.x.best_entry[1] = EarliestBest(call.x.ocr_results)
              /\ call.sorted =>
                    /\ call.x.best_entry[1] = call.x.ocr_results[1]
                    /\ EntryScore(call.x.best_entry) = call.x.ocr_results[1].score
                    /\ call.x.best_score = EntryScore(call.x.best_entry)

\* three candidates, two of them equal in score and in length and better
\* than the third, which was registered first; the list has been sorted
C29_Witness ==
    /\ call.op = "register" /\ call.sorted
    /\ Len(call.x.ocr_results) = 3
    /\ call.x.ocr_results[1].variant = 2
    /\ call.x.ocr_results[2].variant = 3
    /\ call.x.ocr_results[3].variant = 1
    /\ call.x.ocr_results[1].score = call.x.ocr_results[2].score
    /\ Len(call.x.ocr_results[1].text) = Len(call.x.ocr_results[2].text)
    /\ call.x.best_entry[1].variant = 2

\* the lines of a joined text
JoinedLines(t) == IF t = <<>> THEN <<>> ELSE SplitOn(t, NL)

====
